---- MODULE Spec2Model ----
(***************************************************************************)
(* Model of the location-based positioning engine of AR.js                 *)
(* (three.js/src/location-based): the LocationBased class, the spherical   *)
(* Mercator projection it uses and the platform geolocation watch that     *)
(* drives it; and of DeviceOrientationControls, which turns the camera     *)
(* after the orientation sensor of the device.                             *)
(*                                                                         *)
(* Numbers.  Longitudes and latitudes are whole degrees.  Projected        *)
(* coordinates and distances are metres, rounded to the nearest integer    *)
(* from the value the source expression has in IEEE double precision.      *)
(* An optional value (T | null | undefined) is the empty set when it is    *)
(* null or undefined and the singleton {v} when it holds v.                *)
(* Angles are whole degrees, also where the source holds radians (PI is    *)
(* 180); an interpolated angle is rounded to the nearest degree.  The      *)
(* smoothing factor is a number of quarters (ONE is 1.0).                  *)
(***************************************************************************)
EXTENDS Integers, Sequences, FiniteSets, TLC

VARIABLES
    lb,         \* the fields of the LocationBased instance
    position,   \* position of every THREE.Object3D: the camera and the scene objects
    scene,      \* the objects added to _scene
    watches,    \* navigator.geolocation: the ids of the active position watches
    calls,      \* the handler invocations (and alerts) made by the last operation, in order
    op,         \* the last operation: its name, its arguments and how it returned
    controls,   \* the fields of the DeviceOrientationControls instance, lastQuaternion included
    quaternion, \* the quaternion of the camera (this.object.quaternion)
    window,     \* the platform of the controls: permission API, screen angle, listeners,
                \* permission requests that have not been answered
    smoother,   \* an axis of the smoother on its own: the reading a, the previous
                \* angle b, the factor k and the range of the next call
    context,    \* the fields of the Context instance
    visible,    \* object3d.visible of every marker's object
    now,        \* performance.now(), in milliseconds
    inits,      \* ARController.initWithDimensions() promises that are not settled
    heard,      \* per marker, the last marker event a listener on window heard
    lifecycle,  \* which of init() and dispose() of the Context was called last
    source,     \* the fields of the Source instance
    page        \* the document of the Source: the elements it created that are
                \* still loading and the children of document.body

\* The state of the tracking context and of the video source.
ContextVars == <<context, visible, now, inits, heard, lifecycle>>
SourceVars == <<source, page>>

vars == <<lb, position, scene, watches, calls, op, controls, quaternion, window, smoother,
          context, visible, now, inits, heard, lifecycle, source, page>>

-----------------------------------------------------------------------------
(* Bounds of the model *)

\* Latitudes range over 0..MaxLat degrees.
MaxLat == 2
\* navigator.geolocation hands out watch ids 1..MaxWatchId.
MaxWatchId == 2

\* At most MaxRequests permission requests are unanswered at a time.
MaxRequests == 1

\* The sensor reports a tilt (beta, -gamma) of up to MaxTilt degrees.
MaxTilt == 2

\* The smoother is called with angles within MaxSpread degrees of a quarter turn.
MaxSpread == 2

\* Longitudes (degrees): two neighbouring meridians.
\* performance.now() runs from 0 to MaxTime milliseconds.
MaxTime == 5

\* At most MaxMarkers registrations are in the marker list of a Context.
MaxMarkers == 2

\* At most MaxInits initWithDimensions() promises are pending at a time.
MaxInits == 1

\* A Source creates at most MaxElements elements.
MaxElements == 3

Lons == {0, 1}
Lats == 0..MaxLat
WatchIds == 1..MaxWatchId

\* Altitudes and elevations (metres) a fix or a placement call may carry.
Elevations == {0, 30}
\* Accuracy values (metres) a fix may carry: below, at and above the default threshold.
Accuracies == {10, 100, 150}
\* The gpsMinDistance values an application configures (0 is the default).
MinDistances == {0, 150000}
\* The gpsMinAccuracy values an application configures (100 is the default).
MinAccuracies == {100}
\* GeolocationPositionError codes: PERMISSION_DENIED, POSITION_UNAVAILABLE, TIMEOUT.
ErrorCodes == {1, 3}
\* The callbacks an application registers that only take note of the call.
Handlers == {"h1", "h2"}
\* The scene objects an application places.
Objects == {"o1"}
\* window.screen.orientation.angle: portrait and landscape.
ScreenAngles == {0, 90}
\* The smoothingFactor values an application configures, in quarters (4 is the
\* default 1: no smoothing).
SmoothingFactors == {2, 4}
\* The angles (degrees) the smoother is called with: around every quarter turn
\* from 0 to 360, a few of them below 0 and at or above 360.
SmootherAngles == {q * 90 + e : q \in 0..4, e \in -MaxSpread..MaxSpread}
\* The blend factors the smoother is called with, in quarters: 0, 0.25, ..., 1.
BlendFactors == 0..4
\* The ranges update() passes to the smoother: TWO_PI (alpha, beta), PI (gamma).
SmootherRanges == {360, 180}
\* The alphaOffset values an application configures (0 is the default).
AlphaOffsets == {0, 2}
\* The answers to DeviceOrientationEvent.requestPermission(): the promise
\* resolves with "granted" or "denied", or rejects.
PermissionAnswers == {"granted", "denied", "rejected"}

\* The marker controls an application creates.
Markers == {"m1", "m2"}
\* parameters.maxDetectionRate: a frame every 2.5 ms and a frame every 4 ms.
DetectionRates == {400, 250}
\* parameters.sourceType of a Source ('video' loads as 'image' does).
SourceTypes == {"webcam", "image"}

\* The points project() is called with: every 5 degrees of longitude east of
\* Greenwich up to 100, the latitudes around the equator and the two poles.
ProjectionLons == {5 * d : d \in 0..20}
ProjectionLats == (-MaxLat..MaxLat) \cup {-90, 90}

-----------------------------------------------------------------------------
(* Optional values *)

Null == {}
Some(v) == {v}
IsNull(o) == o = {}
Val(o) == CHOOSE v \in o : TRUE

-----------------------------------------------------------------------------
(* SphMercProjection *)

\* const HALF_EARTH = 20037508.34, in whole metres.
HALF_EARTH == 20037508

\* Number.MAX_VALUE: larger than every distance and every threshold.
MAX_VALUE == 2147483647

\* lonToSphMerc(lon) = (lon / 180) * HALF_EARTH
lonToSphMerc(lon) == (lon * HALF_EARTH) \div 180

\* Math.log(Math.tan(((90 + lat) * Math.PI) / 360)) / (Math.PI / 180) * HALF_EARTH / 180
\* for lat = 0, 1, 2, 3, 4 degrees.
LatToSphMercTable == <<0, 111325, 222684, 334111, 445640>>

\* -Infinity, the value of Math.log(0): below every coordinate.
NEGATIVE_INFINITY == -2147483647

\* latToSphMerc(lat).  South of the equator the double is the mirror image of
\* the one north of it to the metre.  At lat = 90 Math.tan gets the double
\* nearest to PI / 2 and returns 1.633e16, a finite number; at lat = -90 it
\* returns 0 and Math.log(0) is -Infinity.
latToSphMerc(lat) ==
    IF lat = 90 THEN 238107693
    ELSE IF lat = -90 THEN NEGATIVE_INFINITY
    ELSE IF lat < 0 THEN -LatToSphMercTable[1 - lat]
    ELSE LatToSphMercTable[lat + 1]

project(lon, lat) == <<lonToSphMerc(lon), latToSphMerc(lat)>>

-----------------------------------------------------------------------------
(* Haversine distance *)

Abs(n) == IF n < 0 THEN -n ELSE n

\* 2 * atan2(sqrt(a), sqrt(1 - a)) * EARTH_RADIUS with
\* a = sin^2(dlat/2) + cos(src.lat) * cos(dest.lat) * sin^2(dlon/2),
\* indexed [src.latitude + 1][dest.latitude + 1][|dest.longitude - src.longitude| + 1]
\* (sin^2 makes the sign of the longitude difference irrelevant).
HaversineTable ==
  << << <<0, 111195, 222390, 333585, 444780>>,
        <<111195, 157249, 248629, 351613, 458447>>,
        <<222390, 248629, 314475, 400863, 497198>>,
        <<333585, 351613, 400863, 471652, 555812>>,
        <<444780, 458447, 497198, 555812, 628758>> >>,
     << <<111195, 157249, 248629, 351613, 458447>>,
        <<0, 111178, 222356, 333534, 444712>>,
        <<111195, 157225, 248569, 351517, 458315>>,
        <<222390, 248607, 314403, 400736, 497016>>,
        <<333585, 351592, 400787, 471509, 555595>> >>,
     << <<222390, 248629, 314475, 400863, 497198>>,
        <<111195, 157225, 248569, 351517, 458315>>,
        <<0, 111127, 222254, 333382, 444509>>,
        <<111195, 157178, 248448, 351324, 458052>>,
        <<222390, 248569, 314283, 400524, 496713>> >>,
     << <<333585, 351613, 400863, 471652, 555812>>,
        <<222390, 248607, 314403, 400736, 497016>>,
        <<111195, 157178, 248448, 351324, 458052>>,
        <<0, 111043, 222085, 333128, 444170>>,
        <<111195, 157106, 248266, 351035, 457658>> >>,
     << <<444780, 458447, 497198, 555812, 628758>>,
        <<333585, 351592, 400787, 471509, 555595>>,
        <<222390, 248569, 314283, 400524, 496713>>,
        <<111195, 157106, 248266, 351035, 457658>>,
        <<0, 110924, 221848, 332772, 443696>> >> >>

_haversineDist(src, dest) ==
    HaversineTable[src.latitude + 1][dest.latitude + 1]
                  [Abs(dest.longitude - src.longitude) + 1]

-----------------------------------------------------------------------------
(* The world an operation runs in *)

\* The camera handed to the constructor (this._camera).
Camera == "camera"

Object3Ds == {Camera} \cup Objects

\* The state an operation starts from, with an empty call log.
World ==
    [lb |-> lb, position |-> position, scene |-> scene, watches |-> watches,
     calls |-> <<>>, ret |-> "void", thrown |-> FALSE]

-----------------------------------------------------------------------------
(* LocationBased: the platform subscription *)

\* A faulty startGps: it subscribes without looking at _watchPositionId.
startGps_NoCheck(w, id) ==
    [w EXCEPT !.lb._watchPositionId = Some(id),
              !.watches = @ \cup {id},
              !.ret = "true"]

\* startGps(): watchPosition hands out the id `id`.
startGps(w, id) ==
    IF IsNull(w.lb._watchPositionId)
    THEN [w EXCEPT !.lb._watchPositionId = Some(id),
                   !.watches = @ \cup {id},
                   !.ret = "true"]
    ELSE [w EXCEPT !.ret = "false"]

\* A faulty stopGps: it clears the watch and keeps its id.
stopGps_KeepsId(w) ==
    IF ~IsNull(w.lb._watchPositionId)
    THEN [w EXCEPT !.watches = @ \ w.lb._watchPositionId,
                   !.ret = "true"]
    ELSE [w EXCEPT !.ret = "false"]

\* A faulty stopGps: it forgets the id and leaves the platform watch running.
stopGps_LeavesWatch(w) ==
    IF ~IsNull(w.lb._watchPositionId)
    THEN [w EXCEPT !.lb._watchPositionId = Null,
                   !.ret = "true"]
    ELSE [w EXCEPT !.ret = "false"]

\* A faulty stopGps: it also forgets the last accepted fix.
stopGps_ForgetsFix(w) ==
    IF ~IsNull(w.lb._watchPositionId)
    THEN [w EXCEPT !.watches = @ \ w.lb._watchPositionId,
                   !.lb._watchPositionId = Null,
                   !.lb._lastCoords = Null,
                   !.ret = "true"]
    ELSE [w EXCEPT !.ret = "false"]

\* stopGps()
stopGps(w) ==
    IF ~IsNull(w.lb._watchPositionId)
    THEN [w EXCEPT !.watches = @ \ w.lb._watchPositionId,
                   !.lb._watchPositionId = Null,
                   !.ret = "true"]
    ELSE [w EXCEPT !.ret = "false"]

-----------------------------------------------------------------------------
(* Handlers *)

\* A handler whose body calls stopGps() on the engine; the other handlers only
\* take note of the call.
StopHandler == "hStop"

\* What a handler can observe of the engine when it is invoked.
Seen(w) ==
    [_lastCoords |-> w.lb._lastCoords,
     initialPosition |-> w.lb.initialPosition,
     camera |-> w.position[Camera],
     _watchPositionId |-> w.lb._watchPositionId]

\* The world after the body of handler h ran in w; ret is what its stopGps()
\* call returned ("void": the handler calls nothing).
HandlerBody(w, h) ==
    IF h = StopHandler THEN stopGps(w) ELSE [w EXCEPT !.ret = "void"]

\* A synchronous call of handler h: its body runs to completion and the call is
\* logged with what the handler saw on entry; the caller then carries on.
Invoke(w, event, h, coords, moved, code) ==
    LET w1 == HandlerBody(w, h)
    IN  [w1 EXCEPT
            !.calls = Append(@,
                [event |-> event, handler |-> h, coords |-> coords, moved |-> moved,
                 code |-> code, seen |-> Seen(w), ret |-> w1.ret]),
            !.ret = w.ret]

\* this._eventHandlers.gpsupdate(position, distMoved)
CallGpsUpdate(w, pos, moved) ==
    Invoke(w, "gpsupdate", Val(w.lb._eventHandlers.gpsupdate), Some(pos.coords), moved, 0)

\* this._eventHandlers.gpserror(error.code)
CallGpsError(w, code) ==
    Invoke(w, "gpserror", Val(w.lb._eventHandlers.gpserror), Null, 0, code)

\* alert(`GPS error: code ${error.code}`)
Alert(w, code) ==
    [w EXCEPT !.calls = Append(@,
        [event |-> "alert", handler |-> "window",
         coords |-> Null, moved |-> 0, code |-> code, seen |-> Seen(w),
         ret |-> "void"])]

-----------------------------------------------------------------------------
(* LocationBased: placement *)

\* setGpsOptions: an option that is undefined leaves its field alone.
setGpsOptions(fields, options) ==
    [fields EXCEPT
        !._gpsMinDistance =
            IF IsNull(options.gpsMinDistance) THEN @ ELSE Val(options.gpsMinDistance),
        !._gpsMinAccuracy =
            IF IsNull(options.gpsMinAccuracy) THEN @ ELSE Val(options.gpsMinAccuracy)]

\* lonLatToWorldCoords throws exactly when the origin is to be subtracted and is not set.
lonLatToWorldCoordsThrows(w) ==
    w.lb.initialPositionAsOrigin /\ IsNull(w.lb.initialPosition)

\* Faulty variant of lonLatToWorldCoords: the projected Y is not negated.
lonLatToWorldCoords_NoFlip(w, lon, lat) ==
    LET projectedPos == project(lon, lat)
    IN  IF w.lb.initialPositionAsOrigin
        THEN <<projectedPos[1] - Val(w.lb.initialPosition)[1],
               projectedPos[2] - Val(w.lb.initialPosition)[2]>>
        ELSE projectedPos

\* lonLatToWorldCoords: the value returned when it does not throw.
lonLatToWorldCoords(w, lon, lat) ==
    LET projectedPos == project(lon, lat)
        translated ==
            IF w.lb.initialPositionAsOrigin
            THEN <<projectedPos[1] - Val(w.lb.initialPosition)[1],
                   projectedPos[2] - Val(w.lb.initialPosition)[2]>>
            ELSE projectedPos
    IN  <<translated[1], -translated[2]>>

\* Faulty variant of setWorldPosition: the elevation is assigned before the
\* world coordinates are computed, so a throw leaves the object half-moved.
setWorldPosition_ElevationFirst(w, object, lon, lat, elev) ==
    LET w1 == IF ~IsNull(elev)
              THEN [w EXCEPT !.position[object].y = Val(elev)]
              ELSE w
    IN  IF lonLatToWorldCoordsThrows(w)
        THEN [w1 EXCEPT !.thrown = TRUE]
        ELSE [w1 EXCEPT !.position[object].x = lonLatToWorldCoords(w, lon, lat)[1],
                        !.position[object].z = lonLatToWorldCoords(w, lon, lat)[2]]

\* setWorldPosition(object, lon, lat, elev)
setWorldPosition(w, object, lon, lat, elev) ==
    IF lonLatToWorldCoordsThrows(w)
    THEN [w EXCEPT !.thrown = TRUE]
    ELSE LET worldCoords == lonLatToWorldCoords(w, lon, lat)
             w1 == IF ~IsNull(elev)
                   THEN [w EXCEPT !.position[object].y = Val(elev)]
                   ELSE w
         IN  [w1 EXCEPT !.position[object].x = worldCoords[1],
                        !.position[object].z = worldCoords[2]]

\* add(object, lon, lat, elev)
add(w, object, lon, lat, elev) ==
    LET w1 == setWorldPosition(w, object, lon, lat, elev)
    IN  IF w1.thrown THEN w1 ELSE [w1 EXCEPT !.scene = @ \cup {object}]

\* setElevation(elev)
setElevation(w, elev) == [w EXCEPT !.position[w.lb._camera].y = elev]

\* Faulty variant of setWorldOrigin: the origin is stored unprojected.
setWorldOrigin_Unprojected(w, lon, lat) ==
    [w EXCEPT !.lb.initialPosition = Some(<<lon, lat>>)]

\* Faulty variant of setWorldOrigin: what was placed against the old origin is
\* moved along with the origin.
setWorldOrigin_Retroactive(w, lon, lat) ==
    LET new == project(lon, lat)
        old == IF IsNull(w.lb.initialPosition) THEN new ELSE Val(w.lb.initialPosition)
    IN  [w EXCEPT !.lb.initialPosition = Some(new),
                  !.position = [o \in DOMAIN @ |->
                                    [@[o] EXCEPT !.x = @ - (new[1] - old[1]),
                                                 !.z = @ + (new[2] - old[2])]]]

\* Faulty variant of setWorldOrigin: setting an origin also switches origin
\* translation on.
setWorldOrigin_SwitchesMode(w, lon, lat) ==
    [w EXCEPT !.lb.initialPosition = Some(project(lon, lat)),
              !.lb.initialPositionAsOrigin = TRUE]

\* setWorldOrigin(lon, lat)
setWorldOrigin(w, lon, lat) ==
    [w EXCEPT !.lb.initialPosition = Some(project(lon, lat))]

-----------------------------------------------------------------------------
(* LocationBased: the fix filter *)

\* Faulty variant of the accuracy test: the threshold is not compared.
accuracyAccepted_NoThreshold(w, pos) == ~IsNull(pos.coords.accuracy)

\* position.coords.accuracy != null && position.coords.accuracy <= this._gpsMinAccuracy
accuracyAccepted(w, pos) ==
    /\ ~IsNull(pos.coords.accuracy)
    /\ Val(pos.coords.accuracy) <= w.lb._gpsMinAccuracy

\* Faulty variant of distMoved: it starts from 0 instead of Number.MAX_VALUE.
distMoved_ZeroFirst(w, pos) ==
    IF IsNull(w.lb._lastCoords)
    THEN 0
    ELSE _haversineDist(Val(w.lb._lastCoords), pos.coords)

\* distMoved after the first if/else: Number.MAX_VALUE for the first fix, else the
\* haversine distance from the last accepted fix.
distMoved(w, pos) ==
    IF IsNull(w.lb._lastCoords)
    THEN MAX_VALUE
    ELSE _haversineDist(Val(w.lb._lastCoords), pos.coords)

\* Faulty variant of the movement test: every distance passes.
movedEnough_Always(w, moved) == moved >= 0

\* if (distMoved >= this._gpsMinDistance)
movedEnough(w, moved) == moved >= w.lb._gpsMinDistance

\* Faulty variant of the origin test: it does not look at the origin in force.
originMissing_IgnoresOrigin(w) == w.lb.initialPositionAsOrigin

\* if (this.initialPositionAsOrigin && !this.initialPosition)
originMissing(w) ==
    w.lb.initialPositionAsOrigin /\ IsNull(w.lb.initialPosition)

\* Faulty variant of acceptFix: the gpsupdate handler is called before the
\* camera is repositioned.
acceptFix_HandlerFirst(w, pos, moved) ==
    LET c  == pos.coords
        w1 == [w EXCEPT !.lb._lastCoords =
                   Some([latitude |-> c.latitude, longitude |-> c.longitude])]
        w2 == IF originMissing(w1)
              THEN setWorldOrigin(w1, c.longitude, c.latitude)
              ELSE w1
        w3 == IF ~IsNull(w2.lb._eventHandlers.gpsupdate)
              THEN CallGpsUpdate(w2, pos, moved)
              ELSE w2
    IN  setWorldPosition(w3, w3.lb._camera, c.longitude, c.latitude, c.altitude)

\* Faulty variant of acceptFix: the distance handed to the handler is measured
\* after the fix was recorded as the last accepted one.
acceptFix_DistanceAfterRecord(w, pos, moved) ==
    LET c  == pos.coords
        w1 == [w EXCEPT !.lb._lastCoords =
                   Some([latitude |-> c.latitude, longitude |-> c.longitude])]
        w2 == IF originMissing(w1)
              THEN setWorldOrigin(w1, c.longitude, c.latitude)
              ELSE w1
        w3 == setWorldPosition(w2, w2.lb._camera, c.longitude, c.latitude, c.altitude)
    IN  IF w3.thrown THEN w3
        ELSE IF ~IsNull(w3.lb._eventHandlers.gpsupdate)
        THEN CallGpsUpdate(w3, pos, _haversineDist(Val(w3.lb._lastCoords), c))
        ELSE w3

\* The body of if (distMoved >= this._gpsMinDistance): record the fix, establish
\* the origin, reposition the camera, then call the gpsupdate handler.
acceptFix(w, pos, moved) ==
    LET c  == pos.coords
        w1 == [w EXCEPT !.lb._lastCoords =
                   Some([latitude |-> c.latitude, longitude |-> c.longitude])]
        w2 == IF originMissing(w1)
              THEN setWorldOrigin(w1, c.longitude, c.latitude)
              ELSE w1
        w3 == setWorldPosition(w2, w2.lb._camera, c.longitude, c.latitude, c.altitude)
    IN  IF w3.thrown THEN w3
        ELSE IF ~IsNull(w3.lb._eventHandlers.gpsupdate)
        THEN CallGpsUpdate(w3, pos, moved)
        ELSE w3

\* Faulty variant of _gpsReceived: every fix that passes the accuracy filter is
\* recorded in _lastCoords, so distances are taken from the last received fix.
_gpsReceived_TracksLastReceived(w, pos) ==
    IF accuracyAccepted(w, pos)
    THEN LET moved == distMoved(w, pos)
             w1 == [w EXCEPT !.lb._lastCoords =
                        Some([latitude |-> pos.coords.latitude,
                              longitude |-> pos.coords.longitude])]
         IN  IF movedEnough(w, moved) THEN acceptFix(w1, pos, moved) ELSE w1
    ELSE w

\* _gpsReceived(position)
_gpsReceived(w, pos) ==
    IF accuracyAccepted(w, pos)
    THEN LET moved == distMoved(w, pos)
             w1 == IF IsNull(w.lb._lastCoords)
                   THEN [w EXCEPT !.lb._lastCoords =
                            Some([latitude |-> pos.coords.latitude,
                                  longitude |-> pos.coords.longitude])]
                   ELSE w
         IN  IF movedEnough(w1, moved) THEN acceptFix(w1, pos, moved) ELSE w1
    ELSE w

\* fakeGps(lon, lat, elev = null, acc = 0)
fakeGps(w, lon, lat, elev, acc) ==
    LET w1 == IF ~IsNull(elev) THEN setElevation(w, Val(elev)) ELSE w
    IN  _gpsReceived(w1, [coords |-> [longitude |-> lon, latitude |-> lat,
                                      altitude |-> Null, accuracy |-> Some(acc)]])

-----------------------------------------------------------------------------
(* LocationBased: handlers of the platform watch *)

\* A faulty error callback: it also gives the watch up.
gpsErrorCallback_StopsTracking(w, code) ==
    LET w1 == IF ~IsNull(w.lb._eventHandlers.gpserror)
              THEN CallGpsError(w, code)
              ELSE Alert(w, code)
    IN  [stopGps(w1) EXCEPT !.ret = "void"]

\* The error callback startGps passes to watchPosition.
gpsErrorCallback(w, code) ==
    IF ~IsNull(w.lb._eventHandlers.gpserror)
    THEN CallGpsError(w, code)
    ELSE Alert(w, code)

\* onGpsError(eventHandler)
onGpsError(w, h) == [w EXCEPT !.lb._eventHandlers.gpserror = Some(h)]

\* A faulty onGpsUpdate: a handler that is already registered stays.
onGpsUpdate_KeepsFirst(w, h) ==
    IF IsNull(w.lb._eventHandlers.gpsupdate)
    THEN [w EXCEPT !.lb._eventHandlers.gpsupdate = Some(h)]
    ELSE w

\* onGpsUpdate(eventHandler)
onGpsUpdate(w, h) == [w EXCEPT !.lb._eventHandlers.gpsupdate = Some(h)]

-----------------------------------------------------------------------------
(* DeviceOrientationControls: angles and quaternions *)

PI == 180
TWO_PI == 360
HALF_PI == 90
\* smoothingFactor 1.0, in quarters.
ONE == 4

\* n / d rounded to the nearest integer.
Rounded(n, d) == (2 * n + d) \div (2 * d)

\* A faulty _orderAngle: the smaller angle is the left one, wherever the shorter
\* arc runs.
_orderAngle_BySize(a, b, range) ==
    IF b > a
    THEN [left |-> a, right |-> b]
    ELSE [left |-> b, right |-> a]

\* _orderAngle(a, b, range)
_orderAngle(a, b, range) ==
    IF \/ (b > a /\ 2 * Abs(b - a) < range)
       \/ (a > b /\ 2 * Abs(b - a) > range)
    THEN [left |-> a, right |-> b]
    ELSE [left |-> b, right |-> a]

\* A faulty _getSmoothedAngle: the shifted right-hand angle is always taken one
\* range further.
_getSmoothedAngle_AlwaysShifts(a, b, k, range) ==
    LET angles == _orderAngle(a, b, range)
        angleshift == angles.left
        origAnglesRight == angles.right
        right == angles.right - angleshift + range
        newangle ==
            (IF origAnglesRight = b
             THEN Rounded((ONE - k) * right, ONE)
             ELSE Rounded(k * right, ONE)) + angleshift
    IN  IF newangle >= range THEN newangle - range ELSE newangle

\* A faulty _getSmoothedAngle: the weights k and 1 - k are swapped.
_getSmoothedAngle_SwappedWeights(a, b, k, range) ==
    LET angles == _orderAngle(a, b, range)
        angleshift == angles.left
        origAnglesRight == angles.right
        shifted == angles.right - angleshift
        right == IF shifted < 0 THEN shifted + range ELSE shifted
        newangle ==
            (IF origAnglesRight = b
             THEN Rounded(k * right, ONE)
             ELSE Rounded((ONE - k) * right, ONE)) + angleshift
    IN  IF newangle >= range THEN newangle - range ELSE newangle

\* A faulty _getSmoothedAngle: the result is not wrapped back.
_getSmoothedAngle_NoWrapBack(a, b, k, range) ==
    LET angles == _orderAngle(a, b, range)
        angleshift == angles.left
        origAnglesRight == angles.right
        shifted == angles.right - angleshift
        right == IF shifted < 0 THEN shifted + range ELSE shifted
    IN  (IF origAnglesRight = b
         THEN Rounded((ONE - k) * right, ONE)
         ELSE Rounded(k * right, ONE)) + angleshift

\* _getSmoothedAngle(a, b, k, range), k in quarters.
_getSmoothedAngle(a, b, k, range) ==
    LET angles == _orderAngle(a, b, range)
        angleshift == angles.left
        origAnglesRight == angles.right
        shifted == angles.right - angleshift
        right == IF shifted < 0 THEN shifted + range ELSE shifted
        newangle ==
            (IF origAnglesRight = b
             THEN Rounded((ONE - k) * right, ONE)
             ELSE Rounded(k * right, ONE)) + angleshift
    IN  IF newangle >= range THEN newangle - range ELSE newangle

\* The quaternion setObjectQuaternion builds, kept as the product it is:
\* setFromEuler(Euler(beta, alpha, -gamma, 'YXZ')) * _q1 * setFromAxisAngle(_zee, -orient).
setObjectQuaternion(alpha, beta, gamma, orient) ==
    [euler |-> <<beta, alpha, -gamma>>, zee |-> -orient]

\* new Quaternion(): the identity, which is the product for a rotation of PI/2
\* about x (undone by _q1) and no screen rotation.
IdentityQuaternion == setObjectQuaternion(0, HALF_PI, 0, 0)

\* 8 * (1 - p.dot(q)) > EPS: products built from different whole-degree angles
\* are further apart than EPS.
FarApart(p, q) == p # q

-----------------------------------------------------------------------------
(* DeviceOrientationControls *)

\* The state an operation of the controls starts from, with an empty call log.
ControlsWorld ==
    [controls |-> controls, quaternion |-> quaternion, window |-> window,
     calls |-> <<>>]

\* this.dispatchEvent(_changeEvent)
DispatchChange(d) ==
    [d EXCEPT !.calls = Append(@,
        [event |-> "change", handler |-> "listeners", quaternion |-> d.quaternion])]

\* A faulty sensor callback: a sample that no update() has used yet stays.
onDeviceOrientationChangeEvent_KeepsPending(d, event) ==
    IF IsNull(d.controls.deviceOrientation)
    THEN [d EXCEPT !.controls.deviceOrientation = Some(event)]
    ELSE d

\* onDeviceOrientationChangeEvent(event)
onDeviceOrientationChangeEvent(d, event) ==
    [d EXCEPT !.controls.deviceOrientation =
        Some([alpha |-> event.alpha, beta |-> event.beta, gamma |-> event.gamma])]

\* onScreenOrientationChangeEvent()
onScreenOrientationChangeEvent(d) ==
    [d EXCEPT !.controls.screenOrientation = d.window.angle]

\* The listeners connect() subscribes and disconnect() removes.
Listeners == {"change", "deviceorientation"}

\* connect()
connect(d) ==
    LET d1 == onScreenOrientationChangeEvent(d)
        d2 == IF d1.window.requestPermission
              THEN [d1 EXCEPT !.window.requests = @ + 1]
              ELSE [d1 EXCEPT !.window.listeners = @ \cup Listeners]
    IN  [d2 EXCEPT !.controls.enabled = TRUE]

\* The then / catch callbacks of the requestPermission() promise.
permissionAnswered(d, response) ==
    LET d1 == [d EXCEPT !.window.requests = @ - 1]
    IN  IF response = "granted"
        THEN [d1 EXCEPT !.window.listeners = @ \cup Listeners]
        ELSE d1

\* A faulty disconnect: the screen-rotation listener stays subscribed.
disconnect_KeepsScreenListener(d) ==
    [d EXCEPT !.window.listeners = @ \ {"deviceorientation"},
              !.controls.enabled = FALSE]

\* disconnect()
disconnect(d) ==
    [d EXCEPT !.window.listeners = @ \ Listeners,
              !.controls.enabled = FALSE]

\* dispose()
dispose(d) == disconnect(d)

\* The angles update() works with: the sample in radians, alphaOffset added.
deviceAngles(c) ==
    LET device == Val(c.deviceOrientation)
    IN  [alpha |-> IF ~IsNull(device.alpha) THEN Val(device.alpha) + c.alphaOffset ELSE 0,
         beta |-> IF ~IsNull(device.beta) THEN Val(device.beta) ELSE 0,
         gamma |-> IF ~IsNull(device.gamma) THEN Val(device.gamma) ELSE 0]

\* Faulty smoothed angles: once initialised they stay as the first tick left them.
smoothedAngles_KeepsFirst(c) ==
    LET raw == deviceAngles(c)
    IN  IF ~IsNull(c.lastOrientation)
        THEN Val(c.lastOrientation)
        ELSE [alpha |-> raw.alpha, beta |-> raw.beta + PI, gamma |-> raw.gamma + HALF_PI]

\* The smoothed angles of a tick, beta shifted by PI and gamma by HALF_PI: the
\* value update() stores in lastOrientation when smoothingFactor < 1.
smoothedAngles(c) ==
    LET raw == deviceAngles(c)
        k == c.smoothingFactor
    IN  IF ~IsNull(c.lastOrientation)
        THEN LET last == Val(c.lastOrientation)
             IN  [alpha |-> _getSmoothedAngle(raw.alpha, last.alpha, k, TWO_PI),
                  beta |-> _getSmoothedAngle(raw.beta + PI, last.beta, k, TWO_PI),
                  gamma |-> _getSmoothedAngle(raw.gamma + HALF_PI, last.gamma, k, PI)]
        ELSE [alpha |-> raw.alpha, beta |-> raw.beta + PI, gamma |-> raw.gamma + HALF_PI]

\* A faulty update body: it smooths whatever smoothingFactor is.
applySample_SmoothsAlways(d) ==
    LET c == d.controls
        orient == IF c.screenOrientation # 0 THEN c.screenOrientation ELSE 0
        smoothed == smoothedAngles(c)
        q == setObjectQuaternion(smoothed.alpha, smoothed.beta - PI,
                                 smoothed.gamma - HALF_PI, orient)
        d1 == [d EXCEPT !.controls.lastOrientation = Some(smoothed),
                        !.quaternion = q]
    IN  IF FarApart(c.lastQuaternion, q)
        THEN DispatchChange([d1 EXCEPT !.controls.lastQuaternion = q])
        ELSE d1

\* A faulty update body: it tells the listeners on every tick.
applySample_AlwaysDispatches(d) ==
    LET c == d.controls
        orient == IF c.screenOrientation # 0 THEN c.screenOrientation ELSE 0
        smoothing == c.smoothingFactor < ONE
        raw == deviceAngles(c)
        smoothed == smoothedAngles(c)
        q == IF smoothing
             THEN setObjectQuaternion(smoothed.alpha, smoothed.beta - PI,
                                      smoothed.gamma - HALF_PI, orient)
             ELSE setObjectQuaternion(raw.alpha, raw.beta, raw.gamma, orient)
    IN  DispatchChange(
            [d EXCEPT !.controls.lastOrientation =
                            IF smoothing THEN Some(smoothed) ELSE @,
                      !.quaternion = q,
                      !.controls.lastQuaternion = q])

\* The part of update() behind its two guards: the camera is turned after the
\* latest sample and listeners are told when the rotation changed.
applySample(d) ==
    LET c == d.controls
        orient == IF c.screenOrientation # 0 THEN c.screenOrientation ELSE 0
        smoothing == c.smoothingFactor < ONE
        raw == deviceAngles(c)
        smoothed == smoothedAngles(c)
        q == IF smoothing
             THEN setObjectQuaternion(smoothed.alpha, smoothed.beta - PI,
                                      smoothed.gamma - HALF_PI, orient)
             ELSE setObjectQuaternion(raw.alpha, raw.beta, raw.gamma, orient)
        d1 == [d EXCEPT !.controls.lastOrientation =
                            IF smoothing THEN Some(smoothed) ELSE @,
                        !.quaternion = q]
    IN  IF FarApart(c.lastQuaternion, q)
        THEN DispatchChange([d1 EXCEPT !.controls.lastQuaternion = q])
        ELSE d1

\* A faulty update: it does not look at `enabled`.
update_IgnoresEnabled(d) ==
    IF ~IsNull(d.controls.deviceOrientation) THEN applySample(d) ELSE d

\* update()
update(d) ==
    IF ~d.controls.enabled
    THEN d
    ELSE IF ~IsNull(d.controls.deviceOrientation) THEN applySample(d) ELSE d

\* new DeviceOrientationControls(object) on the platform w0.
constructorControls(w0) ==
    connect([controls |->
                [enabled |-> TRUE,
                 screenOrientation |-> 0,
                 alphaOffset |-> 0,
                 deviceOrientation |-> Null,
                 lastOrientation |-> Null,
                 smoothingFactor |-> ONE,
                 lastQuaternion |-> IdentityQuaternion],
             quaternion |-> IdentityQuaternion,
             window |-> w0,
             calls |-> <<>>])

-----------------------------------------------------------------------------
(* Context *)

\* The state an operation of the Context starts from, with an empty event log.
ContextWorld ==
    [context |-> context, visible |-> visible, now |-> now, inits |-> inits,
     heard |-> heard, lifecycle |-> lifecycle, calls |-> <<>>, ret |-> "void"]

\* The elements of a sequence.
Range(seq) == {seq[i] : i \in DOMAIN seq}

\* new Context(parameters): the fields after the constructor.
constructorContext(parameters) ==
    [arController |-> Null,
     initialized |-> FALSE,
     parameters |-> parameters,
     _updatedAt |-> Null,
     _arMarkersControls |-> <<>>,
     _artoolkitProjectionAxisTransformMatrix |-> Null]

\* init(onCompleted) up to the await in _initArtoolkit: the axis transform is
\* built and ARController.initWithDimensions() is called; its promise is
\* pending.
init(x) ==
    [x EXCEPT !.context._artoolkitProjectionAxisTransformMatrix = Some("rotationYZ"),
              !.inits = @ + 1,
              !.lifecycle = "init"]

\* _initArtoolkit after the await, with the controller the promise resolved
\* to, and done(): the controller is stored and configured, 'initialized' is
\* dispatched, initialized is set and onCompleted is called.
initCompleted(x, showObject) ==
    [x EXCEPT !.inits = @ - 1,
              !.context.arController = Some([showObject |-> showObject]),
              !.context.initialized = TRUE,
              !.calls = @ \o <<[event |-> "initialized", marker |-> "none"],
                               [event |-> "onCompleted", marker |-> "none"]>>]

\* The promise of initWithDimensions() is rejected: _initArtoolkit ends at the
\* await.
initFailed(x) == [x EXCEPT !.inits = @ - 1]

\* A faulty rate limit: the time of the last processed frame is not looked at.
rateLimited_Never(x) == FALSE

\* The rate limit of update(): present - this._updatedAt < 1000 / maxDetectionRate.
rateLimited(x) ==
    /\ ~IsNull(x.context._updatedAt)
    /\ (x.now - Val(x.context._updatedAt)) * x.context.parameters.maxDetectionRate < 1000

\* The frame of update() behind its two guards.  arController.process() makes
\* the objects of the markers in `detected` visible and leaves showObject as
\* `show`; a registration is told 'markerFound' or 'markerLost' after the
\* visibility of its object before the frame and after it.
processFrame(x, detected, show) ==
    LET list == x.context._arMarkersControls
        prevVisibleMarkers == {m \in Range(list) : x.visible[m]}
        hidden == [m \in DOMAIN x.visible |->
                      IF m \in Range(list) /\ ~Val(x.context.arController).showObject
                      THEN FALSE
                      ELSE x.visible[m]]
        after == [m \in DOMAIN x.visible |-> hidden[m] \/ m \in detected]
        told(m) == IF after[m] /\ m \notin prevVisibleMarkers THEN "markerFound"
                   ELSE IF ~after[m] /\ m \in prevVisibleMarkers THEN "markerLost"
                   ELSE "none"
        events == SelectSeq([i \in DOMAIN list |-> [event |-> told(list[i]), marker |-> list[i]]],
                            LAMBDA e : e.event # "none")
    IN  [x EXCEPT !.context._updatedAt = Some(x.now),
                  !.context.arController = Some([showObject |-> show]),
                  !.visible = after,
                  !.heard = [m \in DOMAIN @ |->
                                IF m \in Range(list) /\ told(m) # "none"
                                THEN told(m)
                                ELSE @[m]],
                  !.calls = <<[event |-> "sourceProcessed", marker |-> "none"]>> \o events,
                  !.ret = "true"]

\* Context.update(srcElement)
updateContext(x, detected, show) ==
    IF IsNull(x.context.arController)
    THEN [x EXCEPT !.ret = "false"]
    ELSE IF rateLimited(x)
    THEN [x EXCEPT !.ret = "false"]
    ELSE processFrame(x, detected, show)

\* addMarker(arMarkerControls)
addMarker(x, m) == [x EXCEPT !.context._arMarkersControls = Append(@, m)]

\* removeMarker(arMarkerControls): the first registration of the marker goes.
removeMarker(x, m) ==
    LET list == x.context._arMarkersControls
    IN  IF m \notin Range(list)
        THEN x
        ELSE LET index == CHOOSE i \in DOMAIN list :
                              list[i] = m /\ \A j \in 1..(i - 1) : list[j] # m
             IN  [x EXCEPT !.context._arMarkersControls =
                     SubSeq(list, 1, index - 1) \o SubSeq(list, index + 1, Len(list))]

\* Context.dispose(): the marker controls and the controller are disposed of
\* and dropped.  A pending initWithDimensions() promise is not touched.
disposeContext(x) ==
    [x EXCEPT !.context.initialized = FALSE,
              !.context._arMarkersControls = <<>>,
              !.context.arController = Null,
              !.context._artoolkitProjectionAxisTransformMatrix = Null,
              !.lifecycle = "dispose"]

-----------------------------------------------------------------------------
(* Source *)

\* The state an operation of the Source starts from, with an empty event log.
SourceWorld == [source |-> source, page |-> page, calls |-> <<>>, ret |-> "void"]

\* new Source(parameters): the fields after the constructor.
constructorSource(parameters) ==
    [ready |-> FALSE, domElement |-> Null, parameters |-> parameters]

\* init(onReady, onError).  The element is created and, unless the webcam API
\* is missing, returned and attached to the source; onSourceReady waits for its
\* load, its loadeddata or its stream.
initSource(y, available) ==
    IF y.source.parameters.sourceType = "webcam" /\ ~available
    THEN [y EXCEPT !.page.created = @ + 1,
                   !.calls = Append(@, [event |-> "camera-error"]),
                   !.ret = "undefined"]
    ELSE LET domElement == y.page.created + 1
         IN  [y EXCEPT !.page.created = domElement,
                       !.page.loading = @ \cup {[element |-> domElement, stale |-> FALSE]},
                       !.source.domElement = Some(domElement),
                       !.ret = "this"]

\* document.body.appendChild(element): the element becomes the last child.
appendChild(body, element) ==
    SelectSeq(body, LAMBDA e : e # element) \o <<element>>

\* A faulty onSourceReady: it does not look at domElement.
onSourceReady_NoGuard(y) ==
    [y EXCEPT !.page.body = IF IsNull(y.source.domElement)
                            THEN @
                            ELSE appendChild(@, Val(y.source.domElement)),
              !.source.ready = TRUE,
              !.calls = @ \o <<[event |-> "arjs-video-loaded"], [event |-> "onReady"]>>]

\* onSourceReady()
onSourceReady(y) ==
    IF IsNull(y.source.domElement)
    THEN y
    ELSE [y EXCEPT !.page.body = appendChild(@, Val(y.source.domElement)),
                   !.source.ready = TRUE,
                   !.calls = @ \o <<[event |-> "arjs-video-loaded"], [event |-> "onReady"]>>]

\* The load of an element the source created completes: onload, onloadeddata,
\* or the then() of getUserMedia, which dispatches 'camera-init' first.
loaded(y, load) ==
    LET y1 == [y EXCEPT !.page.loading = @ \ {load}]
    IN  IF y.source.parameters.sourceType = "webcam"
        THEN onSourceReady([y1 EXCEPT !.calls = Append(@, [event |-> "camera-init"])])
        ELSE onSourceReady(y1)

\* getUserMedia() or enumerateDevices() is rejected: onError is called.
loadFailed(y, load) ==
    [y EXCEPT !.page.loading = @ \ {load},
              !.calls = Append(@, [event |-> "camera-error"])]

\* Source.dispose(): the first '#arjs-video' of the document is removed.  The
\* loads under way are not cancelled; they are from now on loads that complete
\* after a dispose().
disposeSource(y) ==
    [y EXCEPT !.source.ready = FALSE,
              !.source.domElement = Null,
              !.page.body = IF @ = <<>> THEN @ ELSE Tail(@),
              !.page.loading = {[l EXCEPT !.stale = TRUE] : l \in @}]

-----------------------------------------------------------------------------
(* Inputs *)

Opt(S) == {Null} \cup {Some(v) : v \in S}

\* The Coords a fix may carry: altitude and accuracy are optional.
FixCoords ==
    [longitude : Lons, latitude : Lats,
     altitude : Opt(Elevations), accuracy : Opt(Accuracies)]

\* The fixes of a receiver that reports an accuracy of 10 metres.
AccurateFixCoords == {c \in FixCoords : c.accuracy = Some(10)}

\* A few fixes: two that pass the accuracy filter and one that does not.
SampleFixCoords ==
    {[longitude |-> 0, latitude |-> 1, altitude |-> Null, accuracy |-> Some(10)],
     [longitude |-> 1, latitude |-> 2, altitude |-> Some(30), accuracy |-> Some(100)],
     [longitude |-> 1, latitude |-> 0, altitude |-> Null, accuracy |-> Some(150)]}

\* The geographic points an application uses as an explicit origin.
OriginPoints ==
    {[longitude |-> 0, latitude |-> 1], [longitude |-> 1, latitude |-> 0]}

\* The options handed to the constructor.
ConstructorOptions ==
    [initialPosition : Opt(OriginPoints),
     initialPositionAsOrigin : BOOLEAN,
     gpsMinDistance : Opt(MinDistances),
     gpsMinAccuracy : Opt(MinAccuracies)]

\* The orientation events the sensor delivers: the device lying flat and
\* heading just west of north, lying flat and heading just east of north, tilted
\* by MaxTilt degrees, and an event of a device without a sensor (all members
\* null).
SampleOrientations ==
    {[alpha |-> Some(359), beta |-> Some(0), gamma |-> Some(0)],
     [alpha |-> Some(1), beta |-> Some(0), gamma |-> Some(0)],
     [alpha |-> Some(1), beta |-> Some(MaxTilt), gamma |-> Some(-MaxTilt)],
     [alpha |-> Null, beta |-> Null, gamma |-> Null]}

\* The platforms the controls are constructed on: with or without
\* DeviceOrientationEvent.requestPermission, the screen at either angle.
Windows ==
    [requestPermission : BOOLEAN, angle : ScreenAngles,
     listeners : {{}}, requests : {0}]

\* The platform of an engine whose controls are left alone.
DesktopWindow ==
    [requestPermission |-> FALSE, angle |-> 0, listeners |-> {}, requests |-> 0]

\* The constructor options of an engine that is left alone.
DefaultOptions ==
    [initialPosition |-> Null, initialPositionAsOrigin |-> FALSE,
     gpsMinDistance |-> Null, gpsMinAccuracy |-> Null]

\* The arguments the smoother is called with.
Smoothings ==
    [a : SmootherAngles, b : SmootherAngles, k : BlendFactors, range : SmootherRanges]

\* The arguments of a smoother that is left alone.
DefaultSmoothing == [a |-> 0, b |-> 0, k |-> ONE, range |-> TWO_PI]

\* The parameters of a Context and of a Source that are left alone.
DefaultContextParameters == [maxDetectionRate |-> 250]
DefaultSourceParameters == [sourceType |-> "webcam"]

\* The parameters an application constructs a Context and a Source with.
ContextParameters == [maxDetectionRate : DetectionRates]
SourceParameters == [sourceType : SourceTypes]

NoArgs == [none |-> TRUE]

-----------------------------------------------------------------------------
(* Construction *)

\* new LocationBased(scene, camera, options): the fields after the constructor.
constructor(options) ==
    setGpsOptions(
        [_camera |-> Camera,
         _eventHandlers |-> [gpserror |-> Null, gpsupdate |-> Null],
         _lastCoords |-> Null,
         _gpsMinDistance |-> 0,
         _gpsMinAccuracy |-> 100,
         _watchPositionId |-> Null,
         initialPosition |->
            IF ~IsNull(options.initialPosition)
            THEN Some(project(Val(options.initialPosition).longitude,
                              Val(options.initialPosition).latitude))
            ELSE Null,
         initialPositionAsOrigin |->
            ~IsNull(options.initialPosition) \/ options.initialPositionAsOrigin],
        options)

\* The application constructs the engine with options in O, the controls on a
\* platform in W, a Context with parameters in C and a Source with parameters
\* in S; the smoother is about to be called with arguments in A.
InitWith(O, W, A, C, S) ==
    /\ \E options \in O : lb = constructor(options)
    /\ position = [o \in Object3Ds |-> [x |-> 0, y |-> 0, z |-> 0]]
    /\ scene = {}
    /\ watches = {}
    /\ calls = <<>>
    /\ op = [name |-> "constructor", args |-> NoArgs, ret |-> "void", thrown |-> FALSE]
    /\ \E w0 \in W :
        /\ controls = constructorControls(w0).controls
        /\ quaternion = constructorControls(w0).quaternion
        /\ window = constructorControls(w0).window
    /\ smoother \in A
    /\ \E parameters \in C : context = constructorContext(parameters)
    /\ visible = [m \in Markers |-> FALSE]
    /\ now = 0
    /\ inits = 0
    /\ heard = [m \in Markers |-> "none"]
    /\ lifecycle = "constructor"
    /\ \E parameters \in S : source = constructorSource(parameters)
    /\ page = [loading |-> {}, body |-> <<>>, created |-> 0]

\* The same with a Context and a Source that are left alone.
InitIn(O, W, A) ==
    InitWith(O, W, A, {DefaultContextParameters}, {DefaultSourceParameters})

Init == InitIn(ConstructorOptions, {DesktopWindow}, {DefaultSmoothing})

InitControls == InitIn({DefaultOptions}, Windows, {DefaultSmoothing})

-----------------------------------------------------------------------------
(* Operations *)

\* The state after an operation that ran from World and ended in w.
Commit(w, name, args) ==
    /\ lb' = w.lb
    /\ position' = w.position
    /\ scene' = w.scene
    /\ watches' = w.watches
    /\ calls' = w.calls
    /\ op' = [name |-> name, args |-> args, ret |-> w.ret, thrown |-> w.thrown]
    /\ UNCHANGED <<controls, quaternion, window, smoother, ContextVars, SourceVars>>

\* The id watchPosition hands out next: the smallest one that is not in use.
FreeWatchIds == {i \in WatchIds \ watches : \A j \in WatchIds \ watches : i <= j}

\* The application calls startGps().
StartGps ==
    \E id \in FreeWatchIds :
        Commit(startGps(World, id), "startGps", NoArgs)

\* The application calls stopGps().
StopGps == Commit(stopGps(World), "stopGps", NoArgs)

\* The platform delivers a fix with coords in C to the success callback of an
\* active watch, which hands it to _gpsReceived.
PlatformFixIn(C) ==
    /\ watches # {}
    /\ \E c \in C :
        Commit(_gpsReceived(World, [coords |-> c]), "_gpsReceived", [coords |-> c])

\* The platform delivers a fix as above; the record of the call notes whether
\* it is the first fix since startGps().
FirstFixNoted ==
    /\ watches # {}
    /\ \E c \in AccurateFixCoords :
        Commit(_gpsReceived(World, [coords |-> c]), "_gpsReceived",
               [coords |-> c, first |-> op.name = "startGps"])

\* The platform reports an error to the error callback of an active watch.
PlatformError ==
    /\ watches # {}
    /\ \E code \in ErrorCodes :
        Commit(gpsErrorCallback(World, code), "gpsError", [code |-> code])

\* The application injects a synthetic fix at one of the points P.
FakeGpsIn(P) ==
    \E p \in P, elev \in Opt(Elevations), acc \in {0} \cup Accuracies :
        Commit(fakeGps(World, p.longitude, p.latitude, elev, acc), "fakeGps",
               [lon |-> p.longitude, lat |-> p.latitude, elev |-> elev, acc |-> acc])

\* The application registers one of the handlers H for gpsupdate.
OnGpsUpdateIn(H) ==
    \E h \in H :
        Commit(onGpsUpdate(World, h), "onGpsUpdate",
               [handler |-> h, previous |-> lb._eventHandlers.gpsupdate])

\* The application registers one of the handlers H for gpserror.
OnGpsErrorIn(H) ==
    \E h \in H :
        Commit(onGpsError(World, h), "onGpsError",
               [handler |-> h, previous |-> lb._eventHandlers.gpserror])

\* The application sets the origin explicitly to one of the points P.
SetWorldOriginIn(P) ==
    \E p \in P :
        Commit(setWorldOrigin(World, p.longitude, p.latitude), "setWorldOrigin",
               [lon |-> p.longitude, lat |-> p.latitude])

\* The application changes the filter thresholds.
SetGpsOptions ==
    \E d \in Opt(MinDistances), a \in Opt(MinAccuracies) :
        Commit([World EXCEPT !.lb = setGpsOptions(@, [gpsMinDistance |-> d, gpsMinAccuracy |-> a])],
               "setGpsOptions", [gpsMinDistance |-> d, gpsMinAccuracy |-> a])

\* The application places a scene object with add().
Add ==
    \E o \in Objects, lon \in Lons, lat \in Lats, elev \in Opt(Elevations) :
        Commit(add(World, o, lon, lat, elev), "add",
               [object |-> o, lon |-> lon, lat |-> lat, elev |-> elev])

\* The application places a scene object with setWorldPosition().
SetWorldPosition ==
    \E o \in Objects, lon \in Lons, lat \in Lats, elev \in Opt(Elevations) :
        Commit(setWorldPosition(World, o, lon, lat, elev), "setWorldPosition",
               [object |-> o, lon |-> lon, lat |-> lat, elev |-> elev])

-----------------------------------------------------------------------------
(* Operations of the controls *)

\* The state after an operation of the controls that ran from ControlsWorld and
\* ended in d.
CommitControls(d, name, args) ==
    /\ controls' = d.controls
    /\ quaternion' = d.quaternion
    /\ window' = d.window
    /\ calls' = d.calls
    /\ op' = [name |-> name, args |-> args, ret |-> "void", thrown |-> FALSE]
    /\ UNCHANGED <<lb, position, scene, watches, smoother, ContextVars, SourceVars>>

\* The application calls connect().
Connect ==
    /\ window.requestPermission => window.requests < MaxRequests
    /\ CommitControls(connect(ControlsWorld), "connect", NoArgs)

\* The platform answers a permission request.
PermissionAnswered ==
    /\ window.requests > 0
    /\ \E response \in PermissionAnswers :
        CommitControls(permissionAnswered(ControlsWorld, response),
                       "requestPermission", [response |-> response])

\* The application calls disconnect().
Disconnect ==
    CommitControls(disconnect(ControlsWorld), "disconnect",
                   [enabled |-> controls.enabled])

\* The application calls dispose().
Dispose ==
    CommitControls(dispose(ControlsWorld), "dispose",
                   [enabled |-> controls.enabled])

\* The sensor delivers an orientation event to the subscribed listener.
DeviceOrientation ==
    /\ "deviceorientation" \in window.listeners
    /\ \E event \in SampleOrientations :
        CommitControls(onDeviceOrientationChangeEvent(ControlsWorld, event),
                       "deviceorientation",
                       [event |-> event, replaced |-> controls.deviceOrientation])

\* The screen turns to another angle; a subscribed listener is told.
ScreenRotates ==
    \E angle \in ScreenAngles \ {window.angle} :
        LET d == [ControlsWorld EXCEPT !.window.angle = angle]
        IN  CommitControls(IF "change" \in window.listeners
                           THEN onScreenOrientationChangeEvent(d)
                           ELSE d,
                           "screenRotates", [angle |-> angle])

\* The application sets smoothingFactor.
SetSmoothingFactor ==
    \E k \in SmoothingFactors :
        CommitControls([ControlsWorld EXCEPT !.controls.smoothingFactor = k],
                       "smoothingFactor", [k |-> k])

\* The application sets alphaOffset.
SetAlphaOffset ==
    \E offset \in AlphaOffsets :
        CommitControls([ControlsWorld EXCEPT !.controls.alphaOffset = offset],
                       "alphaOffset", [offset |-> offset])

\* The render loop calls update().
Update == CommitControls(update(ControlsWorld), "update", NoArgs)

-----------------------------------------------------------------------------
(* Calls of the smoother *)

\* The state after a call of a helper of the controls that returned value.
CommitCall(name, args, value) ==
    /\ op' = [name |-> name, args |-> args, ret |-> "value", thrown |-> FALSE,
              value |-> value]
    /\ calls' = <<>>
    /\ UNCHANGED <<lb, position, scene, watches, controls, quaternion, window,
                   ContextVars, SourceVars>>

\* this._orderAngle(a, b, range)
OrderAngle ==
    /\ CommitCall("_orderAngle", smoother,
                  _orderAngle(smoother.a, smoother.b, smoother.range))
    /\ UNCHANGED smoother

\* this._getSmoothedAngle(a, b, k, range): a tick of the axis.  As update() does
\* with lastOrientation, the result is the previous angle of the next tick.
GetSmoothedAngle ==
    LET angle == _getSmoothedAngle(smoother.a, smoother.b, smoother.k, smoother.range)
    IN  /\ CommitCall("_getSmoothedAngle", smoother, [angle |-> angle])
        /\ smoother' = [smoother EXCEPT !.b = angle]

\* The application calls project(lon, lat) of the projection.
Project ==
    \E lon \in ProjectionLons, lat \in ProjectionLats :
        /\ CommitCall("project", [lon |-> lon, lat |-> lat],
                      [x |-> project(lon, lat)[1], y |-> project(lon, lat)[2]])
        /\ UNCHANGED smoother

-----------------------------------------------------------------------------
(* Operations of the Context *)

\* The state after an operation of the Context that ran from ContextWorld and
\* ended in x.
CommitContext(x, name, args) ==
    /\ context' = x.context
    /\ visible' = x.visible
    /\ now' = x.now
    /\ inits' = x.inits
    /\ heard' = x.heard
    /\ lifecycle' = x.lifecycle
    /\ calls' = x.calls
    /\ op' = [name |-> name, args |-> args, ret |-> x.ret, thrown |-> FALSE]
    /\ UNCHANGED <<lb, position, scene, watches, controls, quaternion, window,
                   smoother, SourceVars>>

\* The application calls init(onCompleted).
ContextInit ==
    /\ inits < MaxInits
    /\ CommitContext(init(ContextWorld), "Context.init", NoArgs)

\* The promise of initWithDimensions() is resolved with a controller.
InitCompleted ==
    /\ inits > 0
    /\ \E showObject \in BOOLEAN :
        CommitContext(initCompleted(ContextWorld, showObject), "initWithDimensions",
                      [settled |-> "resolved", showObject |-> showObject,
                       lifecycle |-> lifecycle])

\* The promise of initWithDimensions() is rejected.
InitFailed ==
    /\ inits > 0
    /\ CommitContext(initFailed(ContextWorld), "initWithDimensions",
                     [settled |-> "rejected", showObject |-> FALSE,
                      lifecycle |-> lifecycle])

\* The render loop calls update(srcElement); the frame shows the markers of one
\* of the sets D, and process() leaves showObject as one of S.
ContextUpdateIn(D, S) ==
    \E detected \in D, show \in S :
        CommitContext(updateContext(ContextWorld, detected, show), "Context.update",
                      [detected |-> detected, show |-> show])

\* The application registers one of the markers M.
AddMarkerIn(M) ==
    /\ Len(context._arMarkersControls) < MaxMarkers
    /\ \E m \in M :
        CommitContext(addMarker(ContextWorld, m), "addMarker", [marker |-> m])

\* The application removes one of the markers M.
RemoveMarkerIn(M) ==
    \E m \in M :
        CommitContext(removeMarker(ContextWorld, m), "removeMarker", [marker |-> m])

\* The application calls dispose().
ContextDispose ==
    CommitContext(disposeContext(ContextWorld), "Context.dispose", NoArgs)

\* A millisecond passes.
Tick ==
    /\ now < MaxTime
    /\ CommitContext([ContextWorld EXCEPT !.now = @ + 1], "tick", NoArgs)

-----------------------------------------------------------------------------
(* Operations of the Source *)

\* The state after an operation of the Source that ran from SourceWorld and
\* ended in y.
CommitSource(y, name, args) ==
    /\ source' = y.source
    /\ page' = y.page
    /\ calls' = y.calls
    /\ op' = [name |-> name, args |-> args, ret |-> y.ret, thrown |-> FALSE]
    /\ UNCHANGED <<lb, position, scene, watches, controls, quaternion, window,
                   smoother, ContextVars>>

\* The application calls init(onReady, onError); the browser has the webcam
\* API or not.
SourceInit ==
    /\ page.created < MaxElements
    /\ \E available \in BOOLEAN :
        CommitSource(initSource(SourceWorld, available), "Source.init",
                     [available |-> available])

\* An element the source created has loaded, or its stream has arrived.
Loaded ==
    \E load \in page.loading :
        CommitSource(loaded(SourceWorld, load), "onSourceReady",
                     [element |-> load.element, afterDispose |-> load.stale,
                      domElement |-> source.domElement])

\* The webcam of an element the source created is refused.
LoadFailed ==
    /\ source.parameters.sourceType = "webcam"
    /\ \E load \in page.loading :
        CommitSource(loadFailed(SourceWorld, load), "onError",
                     [element |-> load.element, afterDispose |-> load.stale,
                      domElement |-> source.domElement])

\* The application calls dispose().
SourceDispose ==
    CommitSource(disposeSource(SourceWorld), "Source.dispose", NoArgs)

-----------------------------------------------------------------------------
(* Specifications *)

PlatformFix == PlatformFixIn(FixCoords)
OnGpsUpdate == OnGpsUpdateIn({"h1"})

\* The fix filter: the platform watch delivers every kind of fix.
Next ==
    \/ StartGps
    \/ StopGps
    \/ PlatformFix
    \/ OnGpsUpdate
    \/ SetGpsOptions

Spec == Init /\ [][Next]_vars

SampleFix == PlatformFixIn(SampleFixCoords)
SetWorldOrigin == SetWorldOriginIn(OriginPoints)

\* Origin and placement: every operation of the engine, the fixes drawn from
\* the sample fixes.
NextPlace ==
    \/ StartGps
    \/ StopGps
    \/ SampleFix
    \/ PlatformError
    \/ SetWorldOrigin
    \/ Add
    \/ SetWorldPosition

SpecPlace == Init /\ [][NextPlace]_vars

\* Handlers: the application registers and replaces handlers of both events,
\* one of them stopping the engine from within the gpsupdate call.
OnGpsUpdateAny == OnGpsUpdateIn(Handlers \cup {StopHandler})
OnGpsError == OnGpsErrorIn(Handlers)

NextHandlers ==
    \/ StartGps
    \/ StopGps
    \/ SampleFix
    \/ PlatformError
    \/ OnGpsUpdateAny
    \/ OnGpsError

SpecHandlers == Init /\ [][NextHandlers]_vars

\* Synthetic fixes: the application injects fixes at every point of the grid.
FakeGps == FakeGpsIn([longitude : Lons, latitude : Lats])

NextFake ==
    \/ FakeGps
    \/ OnGpsUpdate
    \/ SetGpsOptions

SpecFake == Init /\ [][NextFake]_vars

\* Stop and restart: tracking is started and stopped between accurate fixes
\* at every point of the grid.
NextRestart ==
    \/ StartGps
    \/ StopGps
    \/ FirstFixNoted
    \/ OnGpsUpdate

SpecRestart == Init /\ [][NextRestart]_vars

\* The controls: the application, the sensor, the screen and the render loop.
NextControls ==
    \/ Connect
    \/ PermissionAnswered
    \/ Disconnect
    \/ Dispose
    \/ DeviceOrientation
    \/ ScreenRotates
    \/ SetSmoothingFactor
    \/ Update

SpecControls == InitControls /\ [][NextControls]_vars

\* The rotation: the controls on a platform that asks for no permission, with
\* an application that also configures alphaOffset.
NextRotation ==
    \/ Disconnect
    \/ Connect
    \/ DeviceOrientation
    \/ ScreenRotates
    \/ SetSmoothingFactor
    \/ SetAlphaOffset
    \/ Update

SpecRotation == InitIn({DefaultOptions}, {DesktopWindow}, {DefaultSmoothing}) /\ [][NextRotation]_vars

\* The smoother, called on its own and tick after tick.
NextSmoother ==
    \/ OrderAngle
    \/ GetSmoothedAngle

SpecSmoother == InitIn({DefaultOptions}, {DesktopWindow}, Smoothings) /\ [][NextSmoother]_vars

\* The projection alone, called at points all over the globe.
NextProjection == Project

SpecProjection ==
    InitIn({DefaultOptions}, {DesktopWindow}, {DefaultSmoothing})
        /\ [][NextProjection]_vars

\* The tracking context with one marker: initialisation, frames at any time,
\* disposal.
ContextUpdate == ContextUpdateIn(SUBSET {"m1"}, {FALSE})
AddMarker == AddMarkerIn({"m1"})
RemoveMarker == RemoveMarkerIn({"m1"})

NextContext ==
    \/ ContextInit
    \/ InitCompleted
    \/ InitFailed
    \/ ContextUpdate
    \/ AddMarker
    \/ RemoveMarker
    \/ ContextDispose
    \/ Tick

InitContext ==
    InitWith({DefaultOptions}, {DesktopWindow}, {DefaultSmoothing},
             ContextParameters, {DefaultSourceParameters})

SpecContext == InitContext /\ [][NextContext]_vars

\* The markers of a context that is initialised once: any frame shows any of
\* the markers.
FrameOfMarkers == ContextUpdateIn(SUBSET Markers, BOOLEAN)
AddAnyMarker == AddMarkerIn(Markers)
RemoveAnyMarker == RemoveMarkerIn(Markers)

NextMarkers ==
    \/ ContextInit
    \/ InitCompleted
    \/ FrameOfMarkers
    \/ AddAnyMarker
    \/ RemoveAnyMarker
    \/ Tick

SpecMarkers ==
    InitIn({DefaultOptions}, {DesktopWindow}, {DefaultSmoothing})
        /\ [][NextMarkers]_vars

\* The video source: initialised, loaded and disposed of in any order.
NextSource ==
    \/ SourceInit
    \/ Loaded
    \/ LoadFailed
    \/ SourceDispose

InitSource ==
    InitWith({DefaultOptions}, {DesktopWindow}, {DefaultSmoothing},
             {DefaultContextParameters}, SourceParameters)

SpecSource == InitSource /\ [][NextSource]_vars

-----------------------------------------------------------------------------
(* Vocabulary of the properties.  A step is described by the state before it
   (unprimed), the state after it (primed) and the operation op' that made it. *)

\* The step delivers a fix to _gpsReceived.
FixStep == op'.name = "_gpsReceived"

\* The coords of the fix the step delivers.
FixOf == op'.args.coords

\* The fix passes the accuracy filter in the state before the step.
PassesAccuracy(c) ==
    ~IsNull(c.accuracy) /\ Val(c.accuracy) <= lb._gpsMinAccuracy

\* Great-circle distance from the last accepted fix to c.
FromLastAccepted(c) == _haversineDist(Val(lb._lastCoords), c)

\* The gpsupdate calls among a sequence of calls.
GpsUpdateCalls(cs) == SelectSeq(cs, LAMBDA k : k.event = "gpsupdate")

\* The step leaves every field of the engine and every object where it was
\* and calls no handler.
NothingHappened ==
    /\ lb' = lb
    /\ position' = position
    /\ scene' = scene
    /\ calls' = <<>>

\* The scene coordinates of (lon, lat) for a projected origin o (Null: none).
SceneXZ(o, lon, lat) ==
    IF IsNull(o)
    THEN <<project(lon, lat)[1], -project(lon, lat)[2]>>
    ELSE <<project(lon, lat)[1] - Val(o)[1], -(project(lon, lat)[2] - Val(o)[2])>>

\* The step applied the fix c: it is the last accepted fix, the camera stands at
\* its scene coordinates and a registered gpsupdate handler was called once.
FixApplied(c) ==
    /\ lb'._lastCoords = Some([latitude |-> c.latitude, longitude |-> c.longitude])
    /\ position'[Camera].x =
          SceneXZ(IF lb'.initialPositionAsOrigin THEN lb'.initialPosition ELSE Null,
                  c.longitude, c.latitude)[1]
    /\ position'[Camera].z =
          SceneXZ(IF lb'.initialPositionAsOrigin THEN lb'.initialPosition ELSE Null,
                  c.longitude, c.latitude)[2]
    /\ position'[Camera].y =
          IF IsNull(c.altitude) THEN position[Camera].y ELSE Val(c.altitude)
    /\ Len(GpsUpdateCalls(calls')) =
          IF IsNull(lb._eventHandlers.gpsupdate) THEN 0 ELSE 1

-----------------------------------------------------------------------------
(* C1: a fix whose accuracy is present and exceeds gpsMinAccuracy is rejected
   however far it moved: the last accepted fix, the origin and the camera
   position stay as they were and the gpsupdate handler is not called. *)
C1_AccuracyFilter ==
    [][(/\ FixStep
        /\ ~IsNull(FixOf.accuracy)
        /\ Val(FixOf.accuracy) > lb._gpsMinAccuracy)
       => (/\ lb'._lastCoords = lb._lastCoords
           /\ lb'.initialPosition = lb.initialPosition
           /\ position'[Camera] = position[Camera]
           /\ GpsUpdateCalls(calls') = <<>>)]_vars

\* An inaccurate fix arrived that moved at least gpsMinDistance > 0 away from the
\* last accepted fix, with a gpsupdate handler registered, and nothing was called.
C1_Witness ==
    /\ op.name = "_gpsReceived"
    /\ op.args.coords.accuracy = Some(150)
    /\ lb._gpsMinAccuracy = 100
    /\ ~IsNull(lb._lastCoords)
    /\ lb._gpsMinDistance > 0
    /\ _haversineDist(Val(lb._lastCoords), op.args.coords) >= lb._gpsMinDistance
    /\ ~IsNull(lb._eventHandlers.gpsupdate)
    /\ calls = <<>>

(* C2: with a prior accepted fix, a fix that passes the accuracy filter is
   applied if and only if its great-circle distance from the last ACCEPTED fix
   is >= gpsMinDistance; otherwise nothing happens, so a rejected fix never
   moves the reference point. *)
C2_MovementFilter ==
    [][(FixStep /\ PassesAccuracy(FixOf) /\ ~IsNull(lb._lastCoords))
       => IF FromLastAccepted(FixOf) >= lb._gpsMinDistance
          THEN FixApplied(FixOf)
          ELSE NothingHappened]_vars

\* Under a gpsMinDistance of 150 km a fix was accepted that lies at least that
\* far from the previously accepted fix, and the handler was told the distance.
C2_Witness ==
    /\ op.name = "_gpsReceived"
    /\ lb._gpsMinDistance = 150000
    /\ Len(calls) = 1
    /\ calls[1].event = "gpsupdate"
    /\ calls[1].moved >= 150000
    /\ calls[1].moved < MAX_VALUE

(* C3: with no prior accepted fix, a fix that passes the accuracy filter is
   applied and recorded as the last accepted fix whatever gpsMinDistance is. *)
C3_FirstFix ==
    [][(FixStep /\ PassesAccuracy(FixOf) /\ IsNull(lb._lastCoords))
       => FixApplied(FixOf)]_vars

\* The first fix was accepted under a gpsMinDistance of 150 km.
C3_Witness ==
    /\ op.name = "_gpsReceived"
    /\ lb._gpsMinDistance = 150000
    /\ Len(calls) = 1
    /\ calls[1].event = "gpsupdate"
    /\ calls[1].moved = MAX_VALUE
    /\ lb._lastCoords = Some([latitude |-> op.args.coords.latitude,
                              longitude |-> op.args.coords.longitude])

(* C4: a fix whose accuracy field is absent is not rejected by the accuracy
   filter: with no prior accepted fix it is accepted, recorded and repositions
   the camera. *)
C4_AbsentAccuracyAccepted ==
    [][(FixStep /\ IsNull(FixOf.accuracy) /\ IsNull(lb._lastCoords))
       => FixApplied(FixOf)]_vars

(* C5: a fix rejected by the movement filter leaves the camera position (x, y
   and z), the last accepted fix and the origin exactly as they were, and the
   gpsupdate handler is not called. *)
C5_RejectedByMovement ==
    [][(/\ FixStep
        /\ PassesAccuracy(FixOf)
        /\ ~IsNull(lb._lastCoords)
        /\ FromLastAccepted(FixOf) < lb._gpsMinDistance)
       => (/\ position'[Camera] = position[Camera]
           /\ lb'._lastCoords = lb._lastCoords
           /\ lb'.initialPosition = lb.initialPosition
           /\ GpsUpdateCalls(calls') = <<>>)]_vars

\* A fix carrying an altitude, one degree away from the last accepted fix, was
\* rejected by the movement filter; the camera kept its elevation.
C5_Witness ==
    /\ op.name = "_gpsReceived"
    /\ op.args.coords.accuracy = Some(10)
    /\ op.args.coords.altitude = Some(30)
    /\ ~IsNull(lb._lastCoords)
    /\ _haversineDist(Val(lb._lastCoords), op.args.coords) > 0
    /\ _haversineDist(Val(lb._lastCoords), op.args.coords) < lb._gpsMinDistance
    /\ ~IsNull(lb._eventHandlers.gpsupdate)
    /\ position[Camera].y = 0
    /\ calls = <<>>

(* C6: for every accepted fix a registered gpsupdate handler is called exactly
   once, inside the processing of the fix, and only after the last accepted fix
   was recorded, the origin established and the camera repositioned: what the
   handler sees is the state the fix leaves behind. *)
C6_HandlerAfterUpdate ==
    [][(/\ FixStep
        /\ PassesAccuracy(FixOf)
        /\ (IsNull(lb._lastCoords) \/ FromLastAccepted(FixOf) >= lb._gpsMinDistance)
        /\ ~IsNull(lb._eventHandlers.gpsupdate))
       => (/\ Len(calls') = 1
           /\ calls'[1].event = "gpsupdate"
           /\ calls'[1].handler = Val(lb._eventHandlers.gpsupdate)
           /\ calls'[1].coords = Some(FixOf)
           /\ calls'[1].seen._lastCoords =
                 Some([latitude |-> FixOf.latitude, longitude |-> FixOf.longitude])
           /\ calls'[1].seen._lastCoords = lb'._lastCoords
           /\ calls'[1].seen.initialPosition = lb'.initialPosition
           /\ (lb.initialPositionAsOrigin => ~IsNull(calls'[1].seen.initialPosition))
           /\ calls'[1].seen.camera = position'[Camera])]_vars

\* The handler was called for a fix that moved the camera away from the scene
\* origin and changed its elevation.
C6_Witness ==
    /\ op.name = "_gpsReceived"
    /\ Len(calls) = 1
    /\ calls[1].event = "gpsupdate"
    /\ calls[1].moved < MAX_VALUE
    /\ calls[1].moved > 0
    /\ calls[1].seen.camera.z # 0
    /\ calls[1].seen.camera.y = 30
    /\ lb.initialPositionAsOrigin

(* C7: in first-fix-as-origin mode with no origin yet, the first accepted fix
   establishes the origin at the projection of its coordinates and puts the
   camera at x = 0, z = 0, with y the fix's altitude if it has one and the
   previous y otherwise. *)
C7_FirstFixIsOrigin ==
    [][(/\ FixStep
        /\ PassesAccuracy(FixOf)
        /\ IsNull(lb._lastCoords)
        /\ lb.initialPositionAsOrigin
        /\ IsNull(lb.initialPosition))
       => (/\ lb'.initialPosition = Some(project(FixOf.longitude, FixOf.latitude))
           /\ position'[Camera].x = 0
           /\ position'[Camera].z = 0
           /\ position'[Camera].y =
                 IF IsNull(FixOf.altitude) THEN position[Camera].y
                 ELSE Val(FixOf.altitude))]_vars

\* The first fix, at longitude 1 and latitude 2 with an altitude of 30, became
\* the origin and the camera stands at (0, 30, 0).
C7_Witness ==
    /\ op.name = "_gpsReceived"
    /\ op.args.coords.longitude = 1
    /\ op.args.coords.latitude = 2
    /\ op.args.coords.altitude = Some(30)
    /\ lb.initialPositionAsOrigin
    /\ lb.initialPosition = Some(<<111319, 222684>>)
    /\ Len(calls) = 1
    /\ calls[1].moved = MAX_VALUE
    /\ position[Camera] = [x |-> 0, y |-> 30, z |-> 0]

-----------------------------------------------------------------------------
(* Origin and placement *)

\* The step is a placement call: add or setWorldPosition.
PlaceStep == op'.name \in {"add", "setWorldPosition"}

(* C8: once an origin is set, no fix (accepted or rejected), startGps or
   stopGps call, platform error or placement call changes it; only an explicit
   setWorldOrigin call overwrites it. *)
C8_OriginStable ==
    [][(~IsNull(lb.initialPosition) /\ op'.name # "setWorldOrigin")
       => lb'.initialPosition = lb.initialPosition]_vars

\* In origin-translation mode a fix was accepted at a point that is not the
\* origin: the origin in force was set before that fix and survived it.
C8_Witness ==
    /\ op.name = "_gpsReceived"
    /\ lb.initialPositionAsOrigin
    /\ ~IsNull(lb.initialPosition)
    /\ lb._lastCoords = Some([latitude |-> op.args.coords.latitude,
                              longitude |-> op.args.coords.longitude])
    /\ Val(lb.initialPosition) #
          project(op.args.coords.longitude, op.args.coords.latitude)

(* C9: a placement (add / setWorldPosition) while origin translation is active
   and no origin is established throws to the caller; the object's position is
   not modified and the object is not added to the scene.  Once an origin is
   established the call succeeds. *)
C9_PlacementNeedsOrigin ==
    [][PlaceStep
       => IF lb.initialPositionAsOrigin /\ IsNull(lb.initialPosition)
          THEN /\ op'.thrown
               /\ position' = position
               /\ scene' = scene
          ELSE /\ ~op'.thrown
               /\ (op'.name = "add" => op'.args.object \in scene')]_vars

\* add() with an elevation threw for want of an origin; the object is where it
\* was and is not in the scene.
C9_Witness ==
    /\ op.name = "add"
    /\ op.thrown
    /\ op.args.elev = Some(30)
    /\ position[op.args.object] = [x |-> 0, y |-> 0, z |-> 0]
    /\ op.args.object \notin scene

(* C10: a placement that succeeds puts the object at x = P.x - O.x and
   z = -(P.y - O.y) in origin-translation mode and at x = P.x, z = -P.y in
   no-origin-translation mode, P the projection of (lon, lat) and O the
   projected origin; y becomes the elevation only when one is supplied.  A point
   at the origin is placed at x = 0, z = 0. *)
C10_PlacementResult ==
    [][(PlaceStep /\ ~op'.thrown)
       => LET a == op'.args
              P == project(a.lon, a.lat)
              O == Val(lb.initialPosition)
              p == position'[a.object]
          IN  /\ lb.initialPositionAsOrigin
                    => (p.x = P[1] - O[1] /\ p.z = -(P[2] - O[2]))
              /\ ~lb.initialPositionAsOrigin
                    => (p.x = P[1] /\ p.z = -P[2])
              /\ p.y = IF IsNull(a.elev) THEN position[a.object].y ELSE Val(a.elev)
              /\ (lb.initialPositionAsOrigin /\ P = O) => (p.x = 0 /\ p.z = 0)]_vars

\* setWorldPosition without an elevation placed an object north-east of the
\* origin: x > 0, z < 0, and y is the 30 an earlier placement gave it.
C10_Witness ==
    /\ op.name = "setWorldPosition"
    /\ ~op.thrown
    /\ IsNull(op.args.elev)
    /\ lb.initialPositionAsOrigin
    /\ position[op.args.object].x > 0
    /\ position[op.args.object].z < 0
    /\ position[op.args.object].y = 30

-----------------------------------------------------------------------------
(* The platform subscription *)

\* The engine is tracking in the state before the step.
Tracking == ~IsNull(lb._watchPositionId)

\* The step changes nothing of the engine, the objects or the platform watches.
StateUnchanged ==
    /\ lb' = lb
    /\ position' = position
    /\ scene' = scene
    /\ watches' = watches

(* C11: startGps() returns true and creates a platform watch exactly when the
   engine is not tracking; when it is tracking it returns false and changes
   nothing.  So at most one platform watch is ever active. *)
C11_StartGps ==
    [][/\ op'.name = "startGps"
          => IF ~Tracking
             THEN /\ op'.ret = "true"
                  /\ \E id \in WatchIds \ watches :
                        /\ watches' = watches \cup {id}
                        /\ lb' = [lb EXCEPT !._watchPositionId = Some(id)]
                  /\ position' = position /\ scene' = scene
             ELSE op'.ret = "false" /\ StateUnchanged
       /\ Cardinality(watches') <= 1
       /\ watches' = lb'._watchPositionId]_vars

\* startGps() was called while the engine was tracking: it returned false and
\* the one watch is still the only one.
C11_Witness ==
    /\ op.name = "startGps"
    /\ op.ret = "false"
    /\ Cardinality(watches) = 1
    /\ watches = lb._watchPositionId

(* C12: stopGps() returns true and cancels the platform watch exactly when the
   engine is tracking, and returns false with no effect otherwise.  After any
   stopGps() the engine is not tracking; a second stopGps() in a row returns
   false and a startGps() that follows returns true. *)
C12_StopGps ==
    [][/\ op'.name = "stopGps"
          => /\ IF Tracking
                THEN /\ op'.ret = "true"
                     /\ watches' = watches \ lb._watchPositionId
                     /\ lb' = [lb EXCEPT !._watchPositionId = Null]
                     /\ position' = position /\ scene' = scene
                ELSE op'.ret = "false" /\ StateUnchanged
             /\ IsNull(lb'._watchPositionId)
             /\ watches' = {}
       /\ (op.name = "stopGps" /\ op'.name = "stopGps") => op'.ret = "false"
       /\ (op.name = "stopGps" /\ op'.name = "startGps") => op'.ret = "true"]_vars

\* The engine had a fix accepted, so it was tracking, and was stopped; a further
\* stopGps() returned false and no watch is left.
C12_Witness ==
    /\ op.name = "stopGps"
    /\ op.ret = "false"
    /\ ~IsNull(lb._lastCoords)
    /\ IsNull(lb._watchPositionId)
    /\ watches = {}

-----------------------------------------------------------------------------
(* Synthetic fixes *)

\* The world the platform would leave had it delivered, in the state before the
\* step, a fix with the coordinates, the altitude and the accuracy of the
\* fakeGps call that made the step.
AsPlatformFix ==
    _gpsReceived(World,
        [coords |-> [longitude |-> op'.args.lon, latitude |-> op'.args.lat,
                     altitude |-> op'.args.elev, accuracy |-> Some(op'.args.acc)]])

(* C13: fakeGps(lon, lat, elev, acc) ends in the state (last accepted fix,
   origin, camera x, y, z) and with the handler calls that the platform
   delivering a fix with those coordinates, that altitude and that accuracy
   would have produced; a rejected synthetic fix therefore leaves the camera,
   its elevation included, where it was. *)
C13_FakeGpsAsPlatformFix ==
    [][op'.name = "fakeGps"
       => /\ lb' = AsPlatformFix.lb
          /\ position' = AsPlatformFix.position
          /\ Len(calls') = Len(AsPlatformFix.calls)
          /\ \A i \in 1..Len(calls') :
                /\ calls'[i].handler = AsPlatformFix.calls[i].handler
                /\ calls'[i].moved = AsPlatformFix.calls[i].moved]_vars

-----------------------------------------------------------------------------
(* Handlers *)

\* The calls of handlers of event e among a sequence of calls.
CallsOf(cs, e) == SelectSeq(cs, LAMBDA k : k.event = e)

(* C14: the engine holds at most one gpsupdate handler and at most one gpserror
   handler.  A registration replaces the handler of its event and of no other,
   nothing else changes a handler, and an event calls the handler registered
   last, once: after h1 then h2 were registered only h2 is called. *)
C14_LastRegistrationWins ==
    [][/\ op'.name = "onGpsUpdate"
          => lb' = [lb EXCEPT !._eventHandlers.gpsupdate = Some(op'.args.handler)]
       /\ op'.name = "onGpsError"
          => lb' = [lb EXCEPT !._eventHandlers.gpserror = Some(op'.args.handler)]
       /\ op'.name \notin {"onGpsUpdate", "onGpsError"}
          => lb'._eventHandlers = lb._eventHandlers
       /\ Len(CallsOf(calls', "gpsupdate")) <= 1
       /\ Len(CallsOf(calls', "gpserror")) <= 1
       /\ \A i \in 1..Len(calls') :
            /\ calls'[i].event = "gpsupdate"
               => Some(calls'[i].handler) = lb'._eventHandlers.gpsupdate
            /\ calls'[i].event = "gpserror"
               => Some(calls'[i].handler) = lb'._eventHandlers.gpserror]_vars

\* h2 was registered for gpsupdate over h1.
C14_Witness ==
    /\ op.name = "onGpsUpdate"
    /\ op.args.previous = Some("h1")
    /\ op.args.handler = "h2"
    /\ lb._eventHandlers.gpsupdate = Some("h2")

\* The filter of _gpsReceived rejects the fix c in the state before the step.
Rejected(c) ==
    \/ ~PassesAccuracy(c)
    \/ ~IsNull(lb._lastCoords) /\ FromLastAccepted(c) < lb._gpsMinDistance

(* C15: a rejected fix is reported to the application: with a handler
   registered for each event the engine takes handlers for, a fix that the
   filter rejects calls a handler synchronously. *)
C15_RejectionObserved ==
    [][(/\ FixStep
        /\ Rejected(FixOf)
        /\ ~IsNull(lb._eventHandlers.gpsupdate)
        /\ ~IsNull(lb._eventHandlers.gpserror))
       => calls' # <<>>]_vars

(* C16: a platform error while tracking is reported with its code, once, to the
   registered gpserror handler, or by an alert when none is registered, and
   changes nothing else: the watch stays active and the last accepted fix, the
   origin and every position stay as they were. *)
C16_ErrorReported ==
    [][op'.name = "gpsError"
       => /\ StateUnchanged
          /\ watches' # {}
          /\ Len(calls') = 1
          /\ calls'[1].code = op'.args.code
          /\ IF IsNull(lb._eventHandlers.gpserror)
             THEN calls'[1].event = "alert"
             ELSE /\ calls'[1].event = "gpserror"
                  /\ Some(calls'[1].handler) = lb._eventHandlers.gpserror]_vars

\* Error 3 reached the registered handler of an engine that has an accepted fix
\* and is still tracking.
C16_Witness ==
    /\ op.name = "gpsError"
    /\ op.args.code = 3
    /\ Len(calls) = 1
    /\ calls[1].event = "gpserror"
    /\ calls[1].code = 3
    /\ ~IsNull(lb._lastCoords)
    /\ watches # {}

(* C17: when the gpsupdate handler calls stopGps(), the call returns true and
   the engine is left not tracking with no watch; the changes of the fix being
   delivered (last accepted fix, origin, camera) are the ones the handler saw
   and stay, nothing is changed after the handler returns, and a startGps()
   that follows returns true. *)
C17_StopInsideHandler ==
    [][/\ (/\ FixStep
           /\ calls' # <<>>
           /\ calls'[1].handler = StopHandler)
          => /\ calls'[1].ret = "true"
             /\ IsNull(lb'._watchPositionId)
             /\ watches' = {}
             /\ FixApplied(FixOf)
             /\ lb'._lastCoords = calls'[1].seen._lastCoords
             /\ lb'.initialPosition = calls'[1].seen.initialPosition
             /\ position'[Camera] = calls'[1].seen.camera
             /\ lb' = [lb EXCEPT !._lastCoords = lb'._lastCoords,
                                 !.initialPosition = lb'.initialPosition,
                                 !._watchPositionId = Null]
       /\ (/\ op.name = "_gpsReceived"
           /\ calls # <<>>
           /\ calls[1].handler = StopHandler
           /\ op'.name = "startGps")
          => op'.ret = "true"]_vars

\* A fix in first-fix-as-origin mode was accepted and its handler stopped the
\* engine: the origin and the fix are kept and no watch is left.
C17_Witness ==
    /\ op.name = "_gpsReceived"
    /\ Len(calls) = 1
    /\ calls[1].handler = StopHandler
    /\ calls[1].ret = "true"
    /\ ~IsNull(calls[1].seen._watchPositionId)
    /\ IsNull(lb._watchPositionId)
    /\ watches = {}
    /\ lb.initialPositionAsOrigin
    /\ ~IsNull(lb.initialPosition)
    /\ lb._lastCoords = Some([latitude |-> op.args.coords.latitude,
                              longitude |-> op.args.coords.longitude])

-----------------------------------------------------------------------------
(* The orientation controls *)

(* C18: update() is a no-op when the controls are disabled or when no sample
   has ever arrived: the camera quaternion, the smoothed state and every other
   field stay as they were and no change event is dispatched. *)
C18_UpdateNoOp ==
    [][(/\ op'.name = "update"
        /\ \/ ~controls.enabled
           \/ IsNull(controls.deviceOrientation))
       => /\ quaternion' = quaternion
          /\ controls' = controls
          /\ calls' = <<>>]_vars

\* update() ran on disabled controls that hold a sample and smooth: the camera
\* still has the rotation it was created with and no smoothed state exists.
C18_Witness ==
    /\ op.name = "update"
    /\ ~controls.enabled
    /\ controls.deviceOrientation = Some([alpha |-> Some(359), beta |-> Some(0), gamma |-> Some(0)])
    /\ controls.smoothingFactor < ONE
    /\ IsNull(controls.lastOrientation)
    /\ quaternion = IdentityQuaternion
    /\ calls = <<>>

(* C19: only the latest sample counts.  A sample overwrites the one before it
   and touches neither the smoothed state nor the camera; update() ends in the
   state it would end in had the latest sample arrived over any other sample or
   over none, and it advances the smoothed state once. *)
C19_LatestSampleOnly ==
    [][/\ op'.name = "deviceorientation"
          => /\ controls' = [controls EXCEPT !.deviceOrientation = Some(op'.args.event)]
             /\ quaternion' = quaternion
             /\ calls' = <<>>
       /\ (/\ op'.name = "update"
           /\ controls.enabled
           /\ ~IsNull(controls.deviceOrientation))
          => /\ \A before \in Opt(SampleOrientations) :
                  LET d == update(onDeviceOrientationChangeEvent(
                                [ControlsWorld EXCEPT !.controls.deviceOrientation = before],
                                Val(controls.deviceOrientation)))
                  IN  /\ controls' = d.controls
                      /\ quaternion' = d.quaternion
                      /\ calls' = d.calls
             /\ controls'.lastOrientation =
                  IF controls.smoothingFactor < ONE
                  THEN Some(smoothedAngles(controls))
                  ELSE controls.lastOrientation]_vars

\* A sample arrived over a different one that no tick had used: the controls
\* smooth, have no smoothed state yet and the camera was never turned.
C19_Witness ==
    /\ op.name = "deviceorientation"
    /\ ~IsNull(op.args.replaced)
    /\ op.args.replaced # Some(op.args.event)
    /\ controls.deviceOrientation = Some(op.args.event)
    /\ controls.enabled
    /\ controls.smoothingFactor < ONE
    /\ IsNull(controls.lastOrientation)
    /\ quaternion = IdentityQuaternion

(* C20: where the platform asks for a permission, connect() subscribes nothing
   before the permission is granted; when the request is denied or fails,
   nothing is subscribed, the controls are left disconnected (not enabled) and
   the update() that follows does not turn the camera. *)
C20_DeniedLeavesDisconnected ==
    [][/\ (op'.name = "connect" /\ window.requestPermission)
          => /\ window'.listeners = window.listeners
             /\ window'.requests = window.requests + 1
       /\ op'.name = "requestPermission"
          => IF op'.args.response = "granted"
             THEN window'.listeners = window.listeners \cup Listeners
             ELSE /\ window'.listeners = window.listeners
                  /\ ~controls'.enabled
       /\ (/\ op.name = "requestPermission"
           /\ op.args.response # "granted"
           /\ op'.name = "update")
          => quaternion' = quaternion]_vars

\* The step is a disconnect() or a dispose().
DisconnectStep == op'.name \in {"disconnect", "dispose"}

(* C21: disconnect() and dispose() are idempotent.  Either one leaves the
   controls disabled with no listener subscribed and touches nothing else; one
   more of them right after changes nothing; and a connect() that follows
   enables the controls and, where no permission is asked for, subscribes each
   of the two listeners once. *)
C21_DisconnectIdempotent ==
    [][/\ DisconnectStep
          => /\ controls' = [controls EXCEPT !.enabled = FALSE]
             /\ window' = [window EXCEPT !.listeners = {}]
             /\ quaternion' = quaternion
             /\ calls' = <<>>
       /\ (op.name \in {"disconnect", "dispose"} /\ DisconnectStep)
          => /\ controls' = controls
             /\ window' = window
       /\ (op.name \in {"disconnect", "dispose"} /\ op'.name = "connect")
          => /\ controls'.enabled
             /\ window'.listeners =
                   IF window.requestPermission THEN {} ELSE Listeners]_vars

\* dispose() was called on controls that were disabled already, after a sample
\* had arrived: nothing is subscribed.
C21_Witness ==
    /\ op.name = "dispose"
    /\ ~op.args.enabled
    /\ ~controls.enabled
    /\ window.listeners = {}
    /\ ~IsNull(controls.deviceOrientation)

(* C22: from the return of disconnect() or dispose() until the next connect(),
   that is while the controls are disabled, no listener is subscribed, also
   when a permission request made before the disconnect is granted after it. *)
C22_DisconnectedStaysUnsubscribed ==
    ~controls.enabled => window.listeners = {}

(* C23: dispose() releases the retained state: after it the latest sample and
   the smoothed state are absent. *)
C23_DisposeReleasesState ==
    [][op'.name = "dispose"
       => /\ IsNull(controls'.deviceOrientation)
          /\ IsNull(controls'.lastOrientation)]_vars

-----------------------------------------------------------------------------
(* The rotation update() applies *)

\* The step is an update() that passes both guards.
TickStep ==
    /\ op'.name = "update"
    /\ controls.enabled
    /\ ~IsNull(controls.deviceOrientation)

\* Smoothed states and rotations other than the ones the controls hold.
OtherSmoothedStates ==
    {Null, Some([alpha |-> 0, beta |-> PI, gamma |-> HALF_PI]),
           Some([alpha |-> 359, beta |-> PI + 1, gamma |-> HALF_PI - 1])}
OtherQuaternions == {IdentityQuaternion, setObjectQuaternion(1, 0, 0, 0)}

(* C24: with smoothingFactor = 1 the rotation update() applies is built from
   the latest sample, alphaOffset and the screen angle alone: it is the same
   whatever smoothed state and whatever rotation the sample history left
   behind, and the smoothed state is neither created nor modified. *)
C24_Passthrough ==
    [][(TickStep /\ controls.smoothingFactor = ONE)
       => /\ quaternion' =
                setObjectQuaternion(deviceAngles(controls).alpha,
                                    deviceAngles(controls).beta,
                                    deviceAngles(controls).gamma,
                                    controls.screenOrientation)
          /\ \A last \in OtherSmoothedStates, q \in OtherQuaternions :
                update([ControlsWorld EXCEPT !.controls.lastOrientation = last,
                                             !.controls.lastQuaternion = q,
                                             !.quaternion = q]).quaternion
                = quaternion'
          /\ controls'.lastOrientation = controls.lastOrientation]_vars

\* A tick at factor 1 of controls that had smoothed before: the camera has the
\* rotation of the sample, with alphaOffset 2 and the screen at 90 degrees, and
\* the smoothed state of the earlier ticks is a different one and still there.
C24_Witness ==
    /\ op.name = "update"
    /\ controls.enabled
    /\ controls.smoothingFactor = ONE
    /\ controls.alphaOffset = 2
    /\ controls.screenOrientation = 90
    /\ controls.deviceOrientation = Some([alpha |-> Some(359), beta |-> Some(0), gamma |-> Some(0)])
    /\ quaternion = setObjectQuaternion(361, 0, 0, 90)
    /\ ~IsNull(controls.lastOrientation)
    /\ Val(controls.lastOrientation).alpha # 361

(* C30: a change event is dispatched by update() only, and only when the
   rotation it applied is further than the threshold from the rotation of the
   last event; the reference rotation is replaced exactly when an event is
   dispatched.  Two update() calls in a row without smoothing, hence with the
   same sample, screen angle and parameters, dispatch at most one event. *)
C30_ChangeOnlyWhenRotated ==
    [][/\ TickStep
          => /\ calls' =
                   IF FarApart(controls.lastQuaternion, quaternion')
                   THEN <<[event |-> "change", handler |-> "listeners",
                           quaternion |-> quaternion']>>
                   ELSE <<>>
             /\ controls'.lastQuaternion =
                   IF calls' # <<>> THEN quaternion' ELSE controls.lastQuaternion
       /\ ~TickStep
          => /\ calls' = <<>>
             /\ controls'.lastQuaternion = controls.lastQuaternion
       /\ (/\ op.name = "update"
           /\ op'.name = "update"
           /\ controls.smoothingFactor = ONE)
          => Len(calls) + Len(calls') <= 1]_vars

\* A second update() for the same sample, without smoothing: the camera is
\* turned away from where it started, as it was at the last event, and no event
\* was dispatched.
C30_Witness ==
    /\ op.name = "update"
    /\ calls = <<>>
    /\ controls.enabled
    /\ controls.smoothingFactor = ONE
    /\ controls.deviceOrientation = Some([alpha |-> Some(1), beta |-> Some(0), gamma |-> Some(0)])
    /\ quaternion = setObjectQuaternion(1, 0, 0, 0)
    /\ controls.lastQuaternion = quaternion
    /\ quaternion # IdentityQuaternion

\* The step is an update() that passes both guards while smoothing is enabled.
SmoothingTickStep == TickStep /\ controls.smoothingFactor < ONE

\* The sample of the tick as update() reads it: radians, alphaOffset added, beta
\* shifted by PI and gamma by HALF_PI.
ShiftedSample ==
    [alpha |-> deviceAngles(controls).alpha,
     beta |-> deviceAngles(controls).beta + PI,
     gamma |-> deviceAngles(controls).gamma + HALF_PI]

(* C31: the smoothed state is absent after construction and stays as it is in
   every step but an update() that passes both guards with smoothingFactor < 1;
   such a tick initialises an absent state from the sample without blending,
   and replaces a present one by the blend, axis by axis, of the latest sample
   against the value the previous such tick stored. *)
C31_SmoothedStateLifecycle ==
    /\ IsNull(controls.lastOrientation)
    /\ [][/\ ~SmoothingTickStep
             => controls'.lastOrientation = controls.lastOrientation
          /\ (SmoothingTickStep /\ IsNull(controls.lastOrientation))
             => controls'.lastOrientation = Some(ShiftedSample)
          /\ (SmoothingTickStep /\ ~IsNull(controls.lastOrientation))
             => LET last == Val(controls.lastOrientation)
                    k == controls.smoothingFactor
                IN  controls'.lastOrientation =
                       Some([alpha |-> _getSmoothedAngle(ShiftedSample.alpha,
                                                         last.alpha, k, TWO_PI),
                             beta |-> _getSmoothedAngle(ShiftedSample.beta,
                                                        last.beta, k, TWO_PI),
                             gamma |-> _getSmoothedAngle(ShiftedSample.gamma,
                                                         last.gamma, k, PI)])]_vars

\* A later tick at factor 0.5: the sample heads 1 degree east of north, the
\* previous tick had stored 359, and the smoothed state is now north, neither
\* the sample nor the previous value.
C31_Witness ==
    /\ op.name = "update"
    /\ controls.enabled
    /\ controls.smoothingFactor = 2
    /\ controls.alphaOffset = 0
    /\ controls.deviceOrientation = Some([alpha |-> Some(1), beta |-> Some(0), gamma |-> Some(0)])
    /\ controls.lastOrientation = Some([alpha |-> 0, beta |-> PI, gamma |-> HALF_PI])

-----------------------------------------------------------------------------
(* The angle smoother *)

\* The step is a call _getSmoothedAngle(a, b, k, range).
SmoothStep == op'.name = "_getSmoothedAngle"

\* The arguments of the call: a is the current reading, b the previous angle.
Arg == op'.args

\* The angle x lies in [0, range).
InRange(x, range) == 0 <= x /\ x < range

\* The length of the shorter arc between the angles x and y of [0, range).
Arc(x, y, range) ==
    IF 2 * Abs(x - y) <= range THEN Abs(x - y) ELSE range - Abs(x - y)

(* C25: the smoother has a fixed point where current and previous are equal:
   _getSmoothedAngle(x, x, k, range) returns x for all angles x, all k and
   both ranges. *)
C25_FixedPoint ==
    [][(SmoothStep /\ Arg.a = Arg.b) => op'.value.angle = Arg.a]_vars

(* C25, amended: _getSmoothedAngle(x, x, k, range) returns x for every x below
   range, all k and both ranges; an x at or above range comes back reduced by
   range. *)
C25_FixedPointBelowRange ==
    [][(SmoothStep /\ Arg.a = Arg.b)
       => op'.value.angle = IF Arg.a < Arg.range THEN Arg.a ELSE Arg.a - Arg.range]_vars

\* 181 degrees was smoothed against 181 degrees at factor 0.5 on the full
\* circle and came back.
C25_Witness ==
    /\ op.name = "_getSmoothedAngle"
    /\ op.args = [a |-> 181, b |-> 181, k |-> 2, range |-> TWO_PI]
    /\ op.value.angle = 181

(* C26: at factor 1 the smoother returns the current angle: for all current
   and previous angles of [0, range), _getSmoothedAngle(current, previous, 1,
   range) = current, whichever of the two is ordered left and whether or not the
   shorter arc crosses the wrap boundary. *)
C26_NoSmoothingAtOne ==
    [][(/\ SmoothStep
        /\ Arg.k = ONE
        /\ InRange(Arg.a, Arg.range)
        /\ InRange(Arg.b, Arg.range))
       => op'.value.angle = Arg.a]_vars

\* Current 1 degree against previous 359 degrees at factor 1: the current angle
\* is the right-hand one, the arc crosses the boundary, and 1 degree came back.
C26_Witness ==
    /\ op.name = "_getSmoothedAngle"
    /\ op.args = [a |-> 1, b |-> 359, k |-> ONE, range |-> TWO_PI]
    /\ _orderAngle(1, 359, TWO_PI).right = 1
    /\ op.value.angle = 1

\* The right-hand angle of the ordering of the call, shifted so that the
\* left-hand one is 0.
ShiftedRight ==
    LET angles == _orderAngle(Arg.a, Arg.b, Arg.range)
    IN  IF angles.right - angles.left < 0
        THEN angles.right - angles.left + Arg.range
        ELSE angles.right - angles.left

(* C27: the smoother interpolates along the shorter arc: for current and
   previous in [0, range) and every k, the shifted right-hand angle is at most
   half the range and the result lies on the shorter arc between previous and
   current; 359 degrees against 1 degree at k = 0.5 gives 0 degrees. *)
C27_ShortestArc ==
    [][(/\ SmoothStep
        /\ InRange(Arg.a, Arg.range)
        /\ InRange(Arg.b, Arg.range))
       => /\ 2 * ShiftedRight <= Arg.range
          /\ Arc(op'.value.angle, Arg.a, Arg.range) + Arc(op'.value.angle, Arg.b, Arg.range)
                = Arc(Arg.a, Arg.b, Arg.range)
          /\ (Arg.a = 359 /\ Arg.b = 1 /\ Arg.k = 2 /\ Arg.range = TWO_PI)
                => op'.value.angle = 0]_vars

\* 359 degrees was smoothed against 1 degree at factor 0.5 on the full circle:
\* the result is 0 degrees.
C27_Witness ==
    /\ op.name = "_getSmoothedAngle"
    /\ op.args = [a |-> 359, b |-> 1, k |-> 2, range |-> TWO_PI]
    /\ op.value.angle = 0

(* C28: when the angles a and b passed to _orderAngle are exactly half the
   range apart, a is the left angle and b the right one. *)
C28_TieBreak ==
    [][(/\ op'.name = "_orderAngle"
        /\ 2 * Abs(Arg.b - Arg.a) = Arg.range)
       => op'.value = [left |-> Arg.a, right |-> Arg.b]]_vars

(* C29: the smoothed angle is wrapped back into [0, range): for current and
   previous in [0, range) and every k the result r satisfies 0 <= r < range, so
   across any sequence of smoothed ticks, each smoothing a reading of
   [0, range) against the result of the tick before, the stored angle stays
   inside its range. *)
C29_ResultInRange ==
    [][(/\ SmoothStep
        /\ InRange(Arg.a, Arg.range)
        /\ InRange(Arg.b, Arg.range))
       => InRange(op'.value.angle, Arg.range)]_vars

\* On the half circle 179 degrees was smoothed against 1 degree at factor 0.5:
\* the arc crosses the boundary and the result was wrapped back to 0.
C29_Witness ==
    /\ op.name = "_getSmoothedAngle"
    /\ op.args = [a |-> 179, b |-> 1, k |-> 2, range |-> PI]
    /\ op.value.angle = 0

-----------------------------------------------------------------------------
(* Changing the origin *)

\* The step is an explicit setWorldOrigin(lon, lat).
OriginStep == op'.name = "setWorldOrigin"

\* The origin a placement of the step is translated by (Null: none).
OriginInForce == IF lb'.initialPositionAsOrigin THEN lb'.initialPosition ELSE Null

(* C33: setWorldOrigin(lon, lat) stores the projection of (lon, lat) as the
   origin and changes nothing else: every object and the camera stay where
   they were, the scene and the other fields are as before and no handler is
   called.  A placement or an accepted fix after it moves only the object it
   names, or the camera, to coordinates taken against the origin then stored. *)
C33_OriginNotRetroactive ==
    [][/\ OriginStep
          => /\ lb' = [lb EXCEPT !.initialPosition =
                                    Some(project(op'.args.lon, op'.args.lat))]
             /\ position' = position
             /\ scene' = scene
             /\ calls' = <<>>
       /\ (PlaceStep /\ ~op'.thrown)
          => /\ <<position'[op'.args.object].x, position'[op'.args.object].z>>
                   = SceneXZ(OriginInForce, op'.args.lon, op'.args.lat)
             /\ \A o \in Object3Ds \ {op'.args.object} : position'[o] = position[o]
       /\ (FixStep /\ position' # position)
          => /\ <<position'[Camera].x, position'[Camera].z>>
                   = SceneXZ(OriginInForce, FixOf.longitude, FixOf.latitude)
             /\ \A o \in Object3Ds \ {Camera} : position'[o] = position[o]]_vars

\* The origin was just moved to (1, 0) in origin-translation mode: the object
\* placed at the old origin still stands at x = 0, z = 0 in the scene, where a
\* placement against the new origin would not put it.
C33_Witness ==
    /\ op.name = "setWorldOrigin"
    /\ op.args = [lon |-> 1, lat |-> 0]
    /\ lb.initialPositionAsOrigin
    /\ lb.initialPosition = Some(project(1, 0))
    /\ \E o \in Objects :
          /\ o \in scene
          /\ position[o].x = 0
          /\ position[o].z = 0

-----------------------------------------------------------------------------
(* Stopping and restarting *)

(* C34: startGps and stopGps leave the last accepted fix, the origin and the
   camera as they were; the first fix after a restart that passes the accuracy
   filter and is nearer than gpsMinDistance to the fix accepted before the stop
   is rejected, and no first fix after a restart changes the origin. *)
C34_RestartKeepsFilterState ==
    [][/\ op'.name \in {"startGps", "stopGps"}
          => /\ lb'._lastCoords = lb._lastCoords
             /\ lb'.initialPosition = lb.initialPosition
             /\ lb'.initialPositionAsOrigin = lb.initialPositionAsOrigin
             /\ position' = position
       /\ (FixStep /\ op.name = "startGps" /\ ~IsNull(lb._lastCoords))
          => /\ (PassesAccuracy(FixOf) /\ FromLastAccepted(FixOf) < lb._gpsMinDistance)
                   => NothingHappened
             /\ lb'.initialPosition = lb.initialPosition]_vars

\* The first fix after a restart passed the accuracy filter and carried an
\* altitude; it was one degree from the fix accepted before the stop, which is
\* still the last accepted fix: the camera did not move, the handler was not
\* called and the origin is the one of the first run.
C34_Witness ==
    /\ op.name = "_gpsReceived"
    /\ op.args.first
    /\ op.args.coords.accuracy = Some(10)
    /\ op.args.coords.altitude = Some(30)
    /\ lb._lastCoords = Some([latitude |-> 1, longitude |-> 0])
    /\ op.args.coords.latitude = 0
    /\ op.args.coords.longitude = 0
    /\ lb.initialPositionAsOrigin
    /\ lb.initialPosition = Some(project(0, 1))
    /\ ~IsNull(lb._eventHandlers.gpsupdate)
    /\ position[Camera] = [x |-> 0, y |-> 0, z |-> 0]
    /\ calls = <<>>

-----------------------------------------------------------------------------
(* The positioning mode *)

(* C35: an engine constructed with an initialPosition translates by the
   origin whatever initialPositionAsOrigin was; no operation, setWorldOrigin
   included, changes the mode afterwards, and in no-origin-translation mode a
   placement never throws and puts the object, as an accepted fix puts the
   camera, at the raw projected coordinates even when an origin is stored. *)
C35_ModeFixedAtConstruction ==
    /\ ~IsNull(lb.initialPosition) => lb.initialPositionAsOrigin
    /\ [][/\ lb'.initialPositionAsOrigin = lb.initialPositionAsOrigin
          /\ (PlaceStep /\ ~lb.initialPositionAsOrigin)
             => /\ ~op'.thrown
                /\ position'[op'.args.object].x = project(op'.args.lon, op'.args.lat)[1]
                /\ position'[op'.args.object].z = -project(op'.args.lon, op'.args.lat)[2]
          /\ (FixStep /\ ~lb.initialPositionAsOrigin /\ position' # position)
             => /\ position'[Camera].x = project(FixOf.longitude, FixOf.latitude)[1]
                /\ position'[Camera].z = -project(FixOf.longitude, FixOf.latitude)[2]]_vars

\* An engine built without initialPosition and without initialPositionAsOrigin
\* was given the origin (0, 1) by setWorldOrigin; the object then added at
\* (1, 2) stands at the raw projection of (1, 2), not at its offset from the
\* origin.
C35_Witness ==
    /\ op.name = "add"
    /\ op.args.lon = 1
    /\ op.args.lat = 2
    /\ ~lb.initialPositionAsOrigin
    /\ lb.initialPosition = Some(project(0, 1))
    /\ position[op.args.object].x = project(1, 2)[1]
    /\ position[op.args.object].z = -project(1, 2)[2]
    /\ position[op.args.object].z # -(project(1, 2)[2] - project(0, 1)[2])

-----------------------------------------------------------------------------
(* The distance handed to the gpsupdate handler *)

(* C36: the gpsupdate handler of the first accepted fix receives
   Number.MAX_VALUE as the distance moved; the handler of every later accepted
   fix receives the great-circle distance from the fix accepted before it to
   the new fix, and that distance is at least gpsMinDistance. *)
C36_MovedDistance ==
    [][(FixStep /\ GpsUpdateCalls(calls') # <<>>)
       => LET moved == GpsUpdateCalls(calls')[1].moved
          IN  /\ Len(GpsUpdateCalls(calls')) = 1
              /\ IsNull(lb._lastCoords) => moved = MAX_VALUE
              /\ ~IsNull(lb._lastCoords)
                    => /\ moved = FromLastAccepted(FixOf)
                       /\ moved >= lb._gpsMinDistance
                       /\ moved < MAX_VALUE]_vars

\* A later fix was accepted under a gpsMinDistance of 150 km, one degree north
\* and one degree east of the fix accepted before it: the handler was given
\* the 157 km between them.
C36_Witness ==
    /\ op.name = "_gpsReceived"
    /\ lb._gpsMinDistance = 150000
    /\ Len(calls) = 1
    /\ calls[1].event = "gpsupdate"
    /\ calls[1].moved = 157249
    /\ calls[1].moved = _haversineDist([latitude |-> 0, longitude |-> 0], op.args.coords)
    /\ lb._lastCoords = Some([latitude |-> 1, longitude |-> 1])

-----------------------------------------------------------------------------
(* The frames of the tracking context *)

\* The step is a call of Context.update().
FrameStep == op'.name = "Context.update"

\* Milliseconds since the last processed frame, in the state before the step.
Elapsed == now - Val(context._updatedAt)

(* C37: Context.update returns false, leaves the context, its last-update time
   and the visibility of every marker as they were and dispatches nothing when
   there is no tracking controller, or when a frame was processed less than
   1000 / maxDetectionRate ms ago; otherwise it processes the frame, records
   the present time and returns true.  A processed frame is at least
   1000 / maxDetectionRate ms after the processed frame before it. *)
C37_DetectionRateLimit ==
    [][FrameStep
       => /\ IF \/ IsNull(context.arController)
                \/ /\ ~IsNull(context._updatedAt)
                   /\ Elapsed * context.parameters.maxDetectionRate < 1000
             THEN /\ op'.ret = "false"
                  /\ context' = context
                  /\ visible' = visible
                  /\ heard' = heard
                  /\ calls' = <<>>
             ELSE /\ op'.ret = "true"
                  /\ context'._updatedAt = Some(now)
                  /\ calls' # <<>>
                  /\ calls'[1].event = "sourceProcessed"
                  /\ \A m \in op'.args.detected : visible'[m]
          /\ (op'.ret = "true" /\ ~IsNull(context._updatedAt))
                => Elapsed * context.parameters.maxDetectionRate >= 1000]_vars

\* At 400 frames a second, update() was called 2 ms after the last processed
\* frame with the marker in view: it returned false, the time of the last
\* frame is the old one and the marker, lost in that frame, is still hidden.
C37_Witness ==
    /\ op.name = "Context.update"
    /\ op.ret = "false"
    /\ op.args.detected = {"m1"}
    /\ ~IsNull(context.arController)
    /\ context.parameters.maxDetectionRate = 400
    /\ context._updatedAt = Some(now - 2)
    /\ context._arMarkersControls = <<"m1">>
    /\ heard["m1"] = "markerLost"
    /\ ~visible["m1"]
    /\ calls = <<>>

\* The events of the step that name marker m, in the order of dispatch.
MarkerEvents(m) ==
    LET events == SelectSeq(calls', LAMBDA e : e.marker = m)
    IN  [i \in DOMAIN events |-> events[i].event]

\* What the frame of the step did to the visibility of marker m.
VisibilityChange(m) ==
    IF ~visible[m] /\ visible'[m] THEN "markerFound"
    ELSE IF visible[m] /\ ~visible'[m] THEN "markerLost"
    ELSE "none"

\* No 'markerFound' follows a 'markerFound' directly in the sequence.
NoFoundTwice(events) ==
    \A i \in 1..(Len(events) - 1) :
        ~(events[i] = "markerFound" /\ events[i + 1] = "markerFound")

(* C38: in a processed frame a registered marker is told 'markerFound' exactly
   when its object was not visible before the frame and is visible after it,
   'markerLost' exactly when it was visible before and is not after, and
   nothing when its visibility did not change; the events a marker is told,
   over all frames, never have two 'markerFound' in a row. *)
C38_MarkerFoundLost ==
    [][(FrameStep /\ op'.ret = "true")
       => \A m \in Range(context._arMarkersControls) :
            /\ VisibilityChange(m) = "none" => MarkerEvents(m) = <<>>
            /\ VisibilityChange(m) # "none"
                  => /\ MarkerEvents(m) # <<>>
                     /\ \A i \in DOMAIN MarkerEvents(m) :
                           MarkerEvents(m)[i] = VisibilityChange(m)
            /\ NoFoundTwice(<<heard[m]>> \o MarkerEvents(m))]_vars

-----------------------------------------------------------------------------
(* Disposal of the tracking context *)

(* C39: from the return of Context.dispose() until the next call of init()
   there is no tracking controller, initialized is false, the marker list is
   empty unless the application registers a marker, and update() returns
   false; the completion of an init() that was called before the dispose()
   changes none of this. *)
C39_DisposalIsFinal ==
    [][lifecycle' = "dispose"
       => /\ IsNull(context'.arController)
          /\ ~context'.initialized
          /\ op'.name = "Context.dispose" => context'._arMarkersControls = <<>>
          /\ op'.name \notin {"Context.dispose", "addMarker"}
                => context'._arMarkersControls = context._arMarkersControls
          /\ FrameStep => op'.ret = "false"]_vars

-----------------------------------------------------------------------------
(* Readiness of the source *)

(* C40: a ready source has an element; dispose() leaves the source not ready
   and without element; the load, loadeddata or stream callback of an init()
   that fires after a dispose() leaves ready as it was, does not call onReady
   and does not dispatch 'arjs-video-loaded'. *)
C40_ReadyOnlyWhileAttached ==
    [][/\ source'.ready => ~IsNull(source'.domElement)
       /\ op'.name = "Source.dispose"
          => (~source'.ready /\ IsNull(source'.domElement))
       /\ (op'.name = "onSourceReady" /\ op'.args.afterDispose)
          => /\ source'.ready = source.ready
             /\ \A i \in DOMAIN calls' :
                   calls'[i].event \notin {"onReady", "arjs-video-loaded"}]_vars

-----------------------------------------------------------------------------
(* The projection at the poles *)

(* C32: project(lon, lat) fails at latitude +90 and -90, and at every latitude
   strictly between them it returns a pair of finite coordinates. *)
C32_PolesRejected ==
    [][op'.name = "project"
       => IF op'.args.lat \in {-90, 90}
          THEN op'.thrown
          ELSE /\ ~op'.thrown
               /\ op'.value.y # NEGATIVE_INFINITY
               /\ op'.value.y < MAX_VALUE]_vars

====
